---------------------------- MODULE Spec2Model ----------------------------
(***************************************************************************)
(* Model of the SPC computation core of motor-sqc-project:                 *)
(* StatisticalCalculator (src/src/utils/statistics.py), ControlCharts      *)
(* (src/src/analysis/control_charts.py) and ProcessCapability              *)
(* (src/src/analysis/capability_analysis.py).                              *)
(*                                                                         *)
(* Numbers.  The code computes in IEEE doubles (numpy float64).  The model *)
(* carries a double as a record: a finite value in units of 1/SCALE, or    *)
(* one of the special values NaN, +Inf, -Inf that numpy produces instead   *)
(* of raising on 0/0, x/0 and the mean of an empty array.  Finite          *)
(* arithmetic rounds to the nearest unit; signed zeros are not told apart. *)
(***************************************************************************)
EXTENDS Integers, Sequences, FiniteSets, TLC

(***************************************************************************)
(* Bounds of the explored inputs.                                          *)
(***************************************************************************)
MaxLen == 4
MaxVal == 2
MaxRows == 3

(***************************************************************************)
(* Fixed-point layer.                                                      *)
(***************************************************************************)
SCALE == 10000
HALF == 100

Fin(n) == [k |-> "fin", v |-> n]
NaN == [k |-> "nan", v |-> 0]
PInf == [k |-> "inf", v |-> 1]
NInf == [k |-> "inf", v |-> -1]
Num(n) == Fin(n * SCALE)

IsFin(x) == x.k = "fin"
IsNaN(x) == x.k = "nan"
IsInf(x) == x.k = "inf"

Abs(n) == IF n < 0 THEN -n ELSE n
Sgn(n) == IF n < 0 THEN -1 ELSE IF n > 0 THEN 1 ELSE 0
SgnZ(n) == IF n < 0 THEN -1 ELSE 1

\* a / b for a >= 0, b > 0, to the nearest integer, ties away from zero
RoundHalfUp(a, b) == (a \div b) + (IF 2 * (a % b) >= b THEN 1 ELSE 0)

\* a / b for b > 0, to the nearest integer, ties to the even neighbour
RoundHalfEven(a, b) ==
  LET q == a \div b
      r == a % b
  IN IF 2 * r < b THEN q
     ELSE IF 2 * r > b THEN q + 1
     ELSE IF q % 2 = 0 THEN q ELSE q + 1

\* |a| * |b| / SCALE on magnitudes, split in base HALF to stay in 32 bits
MulMag(a, b) ==
  LET a1 == a \div HALF
      a0 == a % HALF
      b1 == b \div HALF
      b0 == b % HALF
  IN a1 * b1 + RoundHalfUp((a1 * b0 + a0 * b1) * HALF + a0 * b0, SCALE)

RECURSIVE DivDigits(_, _, _, _)
DivDigits(r, b, n, acc) ==
  IF n = 0 THEN acc + (IF 2 * r >= b THEN 1 ELSE 0)
  ELSE DivDigits((r * 10) % b, b, n - 1, acc * 10 + ((r * 10) \div b))

\* |a| * SCALE / |b| on magnitudes by long division, four decimal digits
DivMag(a, b) == DivDigits(a % b, b, 4, a \div b)

RECURSIVE SqrtSearch(_, _, _)
SqrtSearch(n, lo, hi) ==
  IF lo >= hi THEN lo
  ELSE LET mid == (lo + hi + 1) \div 2
       IN IF mid * mid <= n THEN SqrtSearch(n, mid, hi)
          ELSE SqrtSearch(n, lo, mid - 1)

ISqrt(n) == SqrtSearch(n, 0, IF n < 46340 THEN n ELSE 46340)

\* one more decimal digit of a square root: <<root, remainder>>
SqrtDigit(rr) ==
  LET r == rr[1]
      rem == rr[2] * 100
      d == CHOOSE c \in 0..9 :
             /\ (20 * r + c) * c <= rem
             /\ (c = 9 \/ (20 * r + c + 1) * (c + 1) > rem)
  IN <<10 * r + d, rem - (20 * r + d) * d>>

\* sqrt(v / SCALE) * SCALE to the nearest unit
SqrtMag(v) ==
  LET r0 == ISqrt(v)
      rr == SqrtDigit(SqrtDigit(<<r0, v - r0 * r0>>))
  IN rr[1] + (IF rr[2] > rr[1] THEN 1 ELSE 0)

FNeg(x) == IF IsNaN(x) THEN NaN ELSE [k |-> x.k, v |-> -x.v]

FAdd(x, y) ==
  IF IsNaN(x) \/ IsNaN(y) THEN NaN
  ELSE IF IsInf(x) /\ IsInf(y) THEN (IF x.v = y.v THEN x ELSE NaN)
  ELSE IF IsInf(x) THEN x
  ELSE IF IsInf(y) THEN y
  ELSE Fin(x.v + y.v)

FSub(x, y) == FAdd(x, FNeg(y))

FMul(x, y) ==
  IF IsNaN(x) \/ IsNaN(y) THEN NaN
  ELSE IF IsInf(x) \/ IsInf(y)
       THEN (IF x.v = 0 \/ y.v = 0 THEN NaN
             ELSE IF Sgn(x.v) * Sgn(y.v) > 0 THEN PInf ELSE NInf)
  ELSE Fin(Sgn(x.v) * Sgn(y.v) * MulMag(Abs(x.v), Abs(y.v)))

FDiv(x, y) ==
  IF IsNaN(x) \/ IsNaN(y) THEN NaN
  ELSE IF IsInf(x)
       THEN (IF IsInf(y) THEN NaN
             ELSE IF x.v * SgnZ(y.v) > 0 THEN PInf ELSE NInf)
  ELSE IF IsInf(y) THEN Fin(0)
  ELSE IF y.v = 0
       THEN (IF x.v = 0 THEN NaN ELSE IF x.v > 0 THEN PInf ELSE NInf)
  ELSE Fin(Sgn(x.v) * Sgn(y.v) * DivMag(Abs(x.v), Abs(y.v)))

FSqrt(x) ==
  IF IsNaN(x) THEN NaN
  ELSE IF IsInf(x) THEN (IF x.v > 0 THEN PInf ELSE NaN)
  ELSE IF x.v < 0 THEN NaN
  ELSE Fin(SqrtMag(x.v))

FAbs(x) == IF IsNaN(x) THEN NaN ELSE [k |-> x.k, v |-> Abs(x.v)]

\* comparisons: every comparison with NaN is false
FLt(x, y) ==
  /\ ~IsNaN(x)
  /\ ~IsNaN(y)
  /\ IF IsInf(x) THEN x.v < 0 /\ ~(IsInf(y) /\ y.v < 0)
     ELSE IF IsInf(y) THEN y.v > 0
     ELSE x.v < y.v
FGt(x, y) == FLt(y, x)
FEq(x, y) == ~IsNaN(x) /\ ~IsNaN(y) /\ x = y
FLe(x, y) == FLt(x, y) \/ FEq(x, y)
FGe(x, y) == FLe(y, x)

RECURSIVE FPow(_, _)
FPow(x, n) ==
  IF n = 0 THEN Num(1)
  ELSE IF n % 2 = 0 THEN FPow(FMul(x, x), n \div 2)
  ELSE FMul(x, FPow(x, n - 1))

\* Python's built-in max(a, b) and min(a, b): the first argument is kept
\* unless the second compares strictly greater (smaller)
PyMax(a, b) == IF FGt(b, a) THEN b ELSE a
PyMin(a, b) == IF FLt(b, a) THEN b ELSE a

\* Python's round(x, d) for d in 0..4: nearest multiple of 10^-d, ties to even
Pow10(d) == IF d = 0 THEN 1 ELSE IF d = 1 THEN 10 ELSE IF d = 2 THEN 100
            ELSE IF d = 3 THEN 1000 ELSE 10000
\* PyRound to one decimal fewer
PyRound_Coarse(x, d) ==
  IF ~IsFin(x) THEN x
  ELSE LET m == 10 * (SCALE \div Pow10(d))
       IN Fin(RoundHalfEven(x.v, m) * m)

\* round(x, d)
PyRound(x, d) ==
  IF ~IsFin(x) THEN x
  ELSE LET m == SCALE \div Pow10(d)
       IN Fin(RoundHalfEven(x.v, m) * m)


(***************************************************************************)
(* numpy helpers on sequences of doubles.  Code index i is model index i+1.*)
(***************************************************************************)
RECURSIVE FSumFrom(_, _)
FSumFrom(s, i) == IF i > Len(s) THEN Fin(0) ELSE FAdd(s[i], FSumFrom(s, i + 1))
FSum(s) == FSumFrom(s, 1)

\* np.mean: the mean of an empty array is NaN (RuntimeWarning, no exception)
NpMean(s) == IF Len(s) = 0 THEN NaN ELSE FDiv(FSum(s), Num(Len(s)))

\* np.std(s, ddof=1): the divisor is max(N - 1, 0), so N <= 1 gives 0/0 = NaN
NpStd(s) ==
  LET m == NpMean(s)
      sq == [i \in 1..Len(s) |-> FMul(FSub(s[i], m), FSub(s[i], m))]
      dof == IF Len(s) > 1 THEN Len(s) - 1 ELSE 0
  IN IF Len(s) = 0 THEN NaN ELSE FSqrt(FDiv(FSum(sq), Num(dof)))

\* np.abs(np.diff(s))
NpAbsDiff(s) ==
  IF Len(s) < 2 THEN <<>>
  ELSE [i \in 1..(Len(s) - 1) |-> FAbs(FSub(s[i + 1], s[i]))]

\* np.zeros(n)
NpZeros(n) == [i \in 1..n |-> Fin(0)]

\* Python None in an integer-valued field
None == -1

Ok(v) == [status |-> "ok", error |-> "", value |-> v]
Raised(e) == [status |-> "raised", error |-> e, value |-> <<>>]
NoResult == [status |-> "none", error |-> "", value |-> <<>>]

\* the elements of a finite set of integers in ascending order, as a list
RECURSIVE Ascending(_)
Ascending(S) ==
  IF S = {} THEN <<>>
  ELSE LET m == CHOOSE a \in S : \A b \in S : a <= b
       IN <<m>> \o Ascending(S \ {m})

(***************************************************************************)
(* CUSUM: StatisticalCalculator.calculate_cusum and                        *)
(* ControlCharts.create_cusum_chart.                                       *)
(***************************************************************************)
\* CusumLoop without the max(0, .) floor
RECURSIVE CusumLoop_NoFloor(_, _, _, _, _)
CusumLoop_NoFloor(z, k, i, cp, cm) ==
  IF i > Len(z) THEN <<cp, cm>>
  ELSE CusumLoop_NoFloor(z, k, i + 1,
         [cp EXCEPT ![i] = FAdd(FSub(z[i], k), cp[i - 1])],
         [cm EXCEPT ![i] = FAdd(FSub(FNeg(z[i]), k), cm[i - 1])])

\* the loop `for i in range(1, n)` over c_plus and c_minus: <<c_plus, c_minus>>
RECURSIVE CusumLoop(_, _, _, _, _)
CusumLoop(z, k, i, cp, cm) ==
  IF i > Len(z) THEN <<cp, cm>>
  ELSE CusumLoop(z, k, i + 1,
         [cp EXCEPT ![i] = PyMax(Fin(0), FAdd(FSub(z[i], k), cp[i - 1]))],
         [cm EXCEPT ![i] = PyMax(Fin(0), FAdd(FSub(FNeg(z[i]), k), cm[i - 1]))])

Standardize(x) ==
  LET mean == NpMean(x)
      std == NpStd(x)
  IN [i \in 1..Len(x) |-> FDiv(FSub(x[i], mean), std)]

calculate_cusum(x, k, h) ==
  LET z == Standardize(x)
      c == CusumLoop(z, k, 2, NpZeros(Len(x)), NpZeros(Len(x)))
      c_plus == c[1]
      c_minus == c[2]
      out == {i \in 1..Len(x) : FGt(c_plus[i], h) \/ FGt(c_minus[i], h)}
  IN Ok([C_plus |-> c_plus,
         C_minus |-> c_minus,
         h_limit |-> h,
         out_of_control_points |-> Ascending({i - 1 : i \in out})])

\* the alarm loop: one entry per index, up-shift tested first (if / elif)
RECURSIVE CusumAlarms(_, _, _, _, _)
CusumAlarms(x, c_plus, c_minus, h, i) ==
  IF i > Len(x) THEN <<>>
  ELSE (IF FGt(c_plus[i], h)
        THEN <<[index |-> i - 1, type |-> "Yukari kayma",
                cusum_value |-> PyRound(c_plus[i], 2),
                actual_value |-> PyRound(x[i], 2)]>>
        ELSE IF FGt(c_minus[i], h)
        THEN <<[index |-> i - 1, type |-> "Asagi kayma",
                cusum_value |-> PyRound(c_minus[i], 2),
                actual_value |-> PyRound(x[i], 2)]>>
        ELSE <<>>)
       \o CusumAlarms(x, c_plus, c_minus, h, i + 1)

\* ShiftWalk that reports the index of the zero itself
RECURSIVE ShiftWalk_AtZero(_, _)
ShiftWalk_AtZero(c_plus, j) ==
  IF j < 1 THEN None
  ELSE IF FEq(c_plus[j], Fin(0)) THEN j - 1
  ELSE ShiftWalk_AtZero(c_plus, j - 1)

\* for j in range(first_alarm_index, -1, -1): if c_plus[j] == 0: j + 1
RECURSIVE ShiftWalk(_, _)
ShiftWalk(c_plus, j) ==
  IF j < 1 THEN None
  ELSE IF FEq(c_plus[j], Fin(0)) THEN (j - 1) + 1
  ELSE ShiftWalk(c_plus, j - 1)

ShiftDetected(c_plus, h) ==
  LET above == {i \in 1..Len(c_plus) : FGt(c_plus[i], h)}
  IN IF above = {} THEN None
     ELSE ShiftWalk(c_plus, CHOOSE i \in above : \A j \in above : i <= j)

create_cusum_chart(x, k, h) ==
  LET z == Standardize(x)
      c == CusumLoop(z, k, 2, NpZeros(Len(x)), NpZeros(Len(x)))
      c_plus == c[1]
      c_minus == c[2]
      alarms == CusumAlarms(x, c_plus, c_minus, h, 1)
  IN Ok([C_plus |-> c_plus,
         C_minus |-> c_minus,
         h_limit |-> h,
         k_reference |-> k,
         alarms |-> alarms,
         actual_values |-> x,
         standardized_values |-> z,
         summary |-> [control_status |-> IF Len(alarms) = 0
                                         THEN "Kontrol Altinda"
                                         ELSE "Kontrol Disi",
                      total_alarms |-> Len(alarms),
                      shift_start_index |-> ShiftDetected(c_plus, h),
                      target |-> PyRound(NpMean(x), 2),
                      sigma |-> PyRound(NpStd(x), 3)]])

(***************************************************************************)
(* EWMA: StatisticalCalculator.calculate_ewma and                          *)
(* ControlCharts.create_ewma_chart.                                        *)
(***************************************************************************)
\* EwmaLoop with the two weights exchanged
RECURSIVE EwmaLoop_Swapped(_, _, _, _)
EwmaLoop_Swapped(x, lambda_val, i, z) ==
  IF i > Len(x) THEN z
  ELSE EwmaLoop_Swapped(x, lambda_val, i + 1,
         [z EXCEPT ![i] = FAdd(FMul(FSub(Num(1), lambda_val), x[i]),
                               FMul(lambda_val, z[i - 1]))])

\* z[i] = lambda_val * data[i] + (1 - lambda_val) * z[i-1], for i in 1..n-1
RECURSIVE EwmaLoop(_, _, _, _)
EwmaLoop(x, lambda_val, i, z) ==
  IF i > Len(x) THEN z
  ELSE EwmaLoop(x, lambda_val, i + 1,
         [z EXCEPT ![i] = FAdd(FMul(lambda_val, x[i]),
                               FMul(FSub(Num(1), lambda_val), z[i - 1]))])

\* EwmaVar with the power term added instead of subtracted
EwmaVar_Narrowing(lambda_val, i) ==
  FMul(FDiv(lambda_val, FSub(Num(2), lambda_val)),
       FAdd(Num(1), FPow(FSub(Num(1), lambda_val), 2 * (i + 1))))

\* lambda/(2 - lambda) * (1 - (1 - lambda)**(2*(i+1))) at code index i
EwmaVar(lambda_val, i) ==
  FMul(FDiv(lambda_val, FSub(Num(2), lambda_val)),
       FSub(Num(1), FPow(FSub(Num(1), lambda_val), 2 * (i + 1))))

calculate_ewma(x, lambda_val, L) ==
  IF Len(x) = 0 THEN Raised("IndexError")
  ELSE
    LET z == EwmaLoop(x, lambda_val, 2, [NpZeros(Len(x)) EXCEPT ![1] = NpMean(x)])
        mu == NpMean(x)
        sigma == NpStd(x)
        factor(i) == FSqrt(EwmaVar(lambda_val, i))
    IN Ok([ewma_values |-> z,
           UCL |-> [i \in 1..Len(x) |->
                      FAdd(mu, FMul(FMul(L, sigma), factor(i - 1)))],
           LCL |-> [i \in 1..Len(x) |->
                      FSub(mu, FMul(FMul(L, sigma), factor(i - 1)))],
           center_line |-> mu])

\* the out-of-control loop of create_ewma_chart
RECURSIVE EwmaOut(_, _, _, _, _)
EwmaOut(x, z, ucl, lcl, i) ==
  IF i > Len(x) THEN <<>>
  ELSE (IF FGt(z[i], ucl[i]) \/ FLt(z[i], lcl[i])
        THEN <<[index |-> i - 1,
                ewma_value |-> PyRound(z[i], 2),
                actual_value |-> PyRound(x[i], 2),
                type |-> IF FGt(z[i], ucl[i]) THEN "Ust limit" ELSE "Alt limit"]>>
        ELSE <<>>)
       \o EwmaOut(x, z, ucl, lcl, i + 1)

\* trend over recent_trend = z[-10:], taken only when len(z) > 10
EwmaTrend(z) ==
  IF Len(z) > 10
  THEN LET recent == SubSeq(z, Len(z) - 9, Len(z))
       IN IF \A i \in 2..Len(recent) : FGt(recent[i], recent[i - 1]) THEN "Artan"
          ELSE IF \A i \in 2..Len(recent) : FLt(recent[i], recent[i - 1]) THEN "Azalan"
          ELSE "Stabil"
  ELSE "Stabil"

create_ewma_chart(x, lambda_val, L) ==
  IF Len(x) = 0 THEN Raised("IndexError")
  ELSE
    LET n == Len(x)
        mu0 == NpMean(x)
        sigma == NpStd(x)
        z == EwmaLoop(x, lambda_val, 2, [NpZeros(n) EXCEPT ![1] = mu0])
        std_z(i) == FMul(sigma, FSqrt(EwmaVar(lambda_val, i)))
        ucl == [i \in 1..n |-> FAdd(mu0, FMul(L, std_z(i - 1)))]
        lcl == [i \in 1..n |-> FSub(mu0, FMul(L, std_z(i - 1)))]
        out_of_control == EwmaOut(x, z, ucl, lcl, 1)
    IN Ok([ewma_values |-> z,
           UCL |-> [i \in 1..n |-> PyRound(ucl[i], 2)],
           CL |-> PyRound(mu0, 2),
           LCL |-> [i \in 1..n |-> PyRound(lcl[i], 2)],
           actual_values |-> x,
           out_of_control |-> out_of_control,
           parameters |-> [lambda |-> lambda_val, L |-> L,
                           process_mean |-> PyRound(mu0, 2),
                           process_sigma |-> PyRound(sigma, 3)],
           summary |-> [control_status |-> IF Len(out_of_control) = 0
                                           THEN "Kontrol Altinda"
                                           ELSE "Kontrol Disi",
                        trend |-> EwmaTrend(z),
                        sensitivity |-> IF FLt(lambda_val, Fin(3000))
                                        THEN "Kucuk kaymalara duyarli"
                                        ELSE "Normal"]])

(***************************************************************************)
(* Constants: src/src/utils/constants.py.  A missing dict key or a None    *)
(* argument is the value NoneF.                                            *)
(***************************************************************************)
NoneF == [k |-> "none", v |-> 0]
IsNone(x) == x.k = "none"

Variables == {"Toplam_Uretim_Suresi", "Aktif_Calisma_Saat", "Verimlilik"}

SPEC_LIMITS ==
  [v \in {"Toplam_Uretim_Suresi", "Aktif_Calisma_Saat"} |->
     IF v = "Toplam_Uretim_Suresi"
     THEN [USL |-> Num(70), LSL |-> Num(55), Target |-> Num(60)]
     ELSE [USL |-> Num(60), LSL |-> Num(50), Target |-> Num(55)]]

CONTROL_CONSTANTS ==
  [n \in 1..5 |->
     CASE n = 1 -> [A2 |-> Fin(26590), D3 |-> Fin(0), D4 |-> Fin(32670), d2 |-> Fin(11280)]
       [] n = 2 -> [A2 |-> Fin(18800), D3 |-> Fin(0), D4 |-> Fin(32670), d2 |-> Fin(11280)]
       [] n = 3 -> [A2 |-> Fin(10230), D3 |-> Fin(0), D4 |-> Fin(25740), d2 |-> Fin(16930)]
       [] n = 4 -> [A2 |-> Fin(7290), D3 |-> Fin(0), D4 |-> Fin(22820), d2 |-> Fin(20590)]
       [] n = 5 -> [A2 |-> Fin(5770), D3 |-> Fin(0), D4 |-> Fin(21140), d2 |-> Fin(23260)]]

\* CONTROL_CONSTANTS.get(n, CONTROL_CONSTANTS[1])
ConstantsFor(n) ==
  IF n \in DOMAIN CONTROL_CONSTANTS THEN CONTROL_CONSTANTS[n] ELSE CONTROL_CONSTANTS[1]

(***************************************************************************)
(* Capability: ProcessCapability.calculate_capability_indices and          *)
(* StatisticalCalculator.calculate_process_capability.  The expected PPM   *)
(* fields (standard normal CDF of z_usl, z_lsl) are not carried.           *)
(***************************************************************************)
\* Cp with 3 sigma in the denominator
CapabilityCp_ThreeSigma(usl, lsl, sigma) ==
  FDiv(FSub(usl, lsl), FMul(Num(3), sigma))

\* cp = (usl - lsl) / (6 * sigma)
CapabilityCp(usl, lsl, sigma) ==
  FDiv(FSub(usl, lsl), FMul(Num(6), sigma))

\* cpu = (usl - mean) / (3 * sigma);  cpl = (mean - lsl) / (3 * sigma)
CapabilityCpu(usl, mean, sigma) ==
  FDiv(FSub(usl, mean), FMul(Num(3), sigma))
CapabilityCpl(lsl, mean, sigma) ==
  FDiv(FSub(mean, lsl), FMul(Num(3), sigma))

\* Cpk as the larger of the two one-sided indices
CapabilityCpk_Max(cpu, cpl) == PyMax(cpu, cpl)

\* cpk = min(cpu, cpl)
CapabilityCpk(cpu, cpl) == PyMin(cpu, cpl)

\* lines 50-66: the limits and target the computation uses
ResolveSpec(variable, x, usl, lsl, target) ==
  LET r == IF IsNone(usl) \/ IsNone(lsl)
           THEN (IF variable \in DOMAIN SPEC_LIMITS
                 THEN SPEC_LIMITS[variable]
                 ELSE [USL |-> FAdd(NpMean(x), FMul(Num(3), NpStd(x))),
                       LSL |-> FSub(NpMean(x), FMul(Num(3), NpStd(x))),
                       Target |-> NpMean(x)])
           ELSE [USL |-> usl, LSL |-> lsl, Target |-> target]
  IN [r EXCEPT !.Target = IF IsNone(r.Target)
                          THEN FDiv(FAdd(r.USL, r.LSL), Num(2))
                          ELSE r.Target]

\* interpret_capability of capability_analysis.py (lines 130-144)
InterpretCapability(cpk) ==
  IF FLt(cpk, Fin(0)) THEN "Surec spec disinda uretiyor"
  ELSE IF FLt(cpk, Fin(6700)) THEN "Yetersiz"
  ELSE IF FLt(cpk, Fin(10000)) THEN "Zayif"
  ELSE IF FLt(cpk, Fin(13300)) THEN "Kabul edilebilir"
  ELSE IF FLt(cpk, Fin(16700)) THEN "Iyi"
  ELSE IF FLt(cpk, Fin(20000)) THEN "Mukemmel"
  ELSE "Dunya sinifi"

_get_recommendation(cp, cpk, k) ==
  IF FLt(cpk, Fin(6700)) THEN "Acil"
  ELSE IF FGt(cp, Fin(13300)) /\ FLt(cpk, Fin(10000)) THEN "Sadece merkezleme"
  ELSE IF FLt(cp, Fin(10000)) THEN "Varyasyon cok yuksek"
  ELSE IF FGe(cpk, Fin(13300)) THEN "Surec yeterli"
  ELSE "Merkezleme ve varyasyon"

\* lines 108-178: the returned dictionary, from the indices computed above it
CapabilityReport(x, usl, lsl, target, mean, sigma_within, sigma_overall, cp, cpu, cpl, cpk, cpm, pp, ppk, k) ==
  LET z_bench == FMul(Num(3), cpk)
      sigma_level == FAdd(z_bench, Fin(15000))
      actual_total == Cardinality({i \in 1..Len(x) : FGt(x[i], usl)})
                      + Cardinality({i \in 1..Len(x) : FLt(x[i], lsl)})
  IN \* actual_total / len(data) on plain Python integers when data is empty
     IF Len(x) = 0 THEN Raised("ZeroDivisionError")
     ELSE Ok([indices |-> [Cp |-> PyRound(cp, 3),
                           Cpk |-> PyRound(cpk, 3),
                           CPU |-> PyRound(cpu, 3),
                           CPL |-> PyRound(cpl, 3),
                           Cpm |-> PyRound(cpm, 3),
                           Pp |-> PyRound(pp, 3),
                           Ppk |-> PyRound(ppk, 3),
                           k |-> PyRound(k, 3)],
              \* the locals cp and cpk before rounding (not returned by the code)
              raw |-> [Cp |-> cp, Cpk |-> cpk],
              statistics |-> [mean |-> PyRound(mean, 2),
                              target |-> PyRound(target, 2),
                              sigma_within |-> PyRound(sigma_within, 3),
                              sigma_overall |-> PyRound(sigma_overall, 3),
                              USL |-> usl,
                              LSL |-> lsl],
              sigma_level |-> PyRound(sigma_level, 2),
              ppm |-> [observed_total |->
                         RoundHalfEven(actual_total * 1000000, Len(x))],
              interpretation |->
                [capability_status |-> InterpretCapability(cpk),
                 centering |-> IF FLt(k, Fin(2000)) THEN "Iyi merkezlenmis"
                               ELSE "Kayma var",
                 variation_control |-> IF FGt(cp, Fin(13300)) THEN "Iyi"
                                       ELSE "Yuksek varyasyon",
                 recommendation |-> _get_recommendation(cp, cpk, k)]])

\* lines 86 and 98: cpk = min(cpu, cpl), ppk = min(ppu, ppl)
CapabilityMinima(x, usl, lsl, target, mean, sigma_within, sigma_overall, cp, cpu, cpl, cpm, pp, ppu, ppl, k) ==
  CapabilityReport(x, usl, lsl, target, mean, sigma_within, sigma_overall,
                   cp, cpu, cpl, CapabilityCpk(cpu, cpl), cpm,
                   pp, CapabilityCpk(ppu, ppl), k)

\* lines 78-101: Cp, CPU, CPL, Cpm, Pp, PPU, PPL and k
CapabilityIndices(x, usl, lsl, target, mean, sigma_within, sigma_overall) ==
  CapabilityMinima(x, usl, lsl, target, mean, sigma_within, sigma_overall,
    CapabilityCp(usl, lsl, sigma_within),
    CapabilityCpu(usl, mean, sigma_within),
    CapabilityCpl(lsl, mean, sigma_within),
    FDiv(FSub(usl, lsl),
         FMul(Num(6), FSqrt(FAdd(FMul(sigma_within, sigma_within),
                                 FMul(FSub(mean, target), FSub(mean, target)))))),
    CapabilityCp(usl, lsl, sigma_overall),
    CapabilityCpu(usl, mean, sigma_overall),
    CapabilityCpl(lsl, mean, sigma_overall),
    FDiv(FAbs(FSub(mean, target)), FDiv(FSub(usl, lsl), Num(2))))

\* lines 69-76: mean, sigma_within = mr_bar / 1.128, sigma_overall
CapabilityStatistics(x, spec) ==
  CapabilityIndices(x, spec.USL, spec.LSL, spec.Target,
                    NpMean(x), FDiv(NpMean(NpAbsDiff(x)), Fin(11280)), NpStd(x))

calculate_capability_indices(variable, x, usl_arg, lsl_arg, target_arg) ==
  CapabilityStatistics(x, ResolveSpec(variable, x, usl_arg, lsl_arg, target_arg))

\* interpret_capability of statistics.py (lines 131-141)
interpret_capability(cpk_value) ==
  IF FLt(cpk_value, Fin(6700)) THEN "Yetersiz"
  ELSE IF FLt(cpk_value, Fin(10000)) THEN "Zayif"
  ELSE IF FLt(cpk_value, Fin(13300)) THEN "Kabul edilebilir"
  ELSE IF FLt(cpk_value, Fin(16700)) THEN "Iyi"
  ELSE "Mukemmel"

\* spec_limits is None (NoneF) or a dict with USL, LSL and an optional Target
calculate_process_capability(x, spec_limits) ==
  IF spec_limits = NoneF THEN Ok(NoneF)
  ELSE
    LET mean == NpMean(x)
        std == NpStd(x)
        usl == spec_limits.USL
        lsl == spec_limits.LSL
        target == IF IsNone(spec_limits.Target)
                  THEN FDiv(FAdd(usl, lsl), Num(2))
                  ELSE spec_limits.Target
        cp == CapabilityCp(usl, lsl, std)
        cpu == CapabilityCpu(usl, mean, std)
        cpl == CapabilityCpl(lsl, mean, std)
        cpk == CapabilityCpk(cpu, cpl)
        msd == FAdd(FMul(std, std), FMul(FSub(mean, target), FSub(mean, target)))
        cpm == FDiv(FSub(usl, lsl), FMul(Num(6), FSqrt(msd)))
    IN Ok([Cp |-> PyRound(cp, 3),
           Cpk |-> PyRound(cpk, 3),
           Cpm |-> PyRound(cpm, 3),
           CPU |-> PyRound(cpu, 3),
           CPL |-> PyRound(cpl, 3),
           \* the locals cp and cpk before rounding (not returned by the code)
           raw |-> [Cp |-> cp, Cpk |-> cpk],
           mean |-> PyRound(mean, 2),
           std |-> PyRound(std, 3),
           interpretation |-> interpret_capability(cpk),
           sigma_level |-> PyRound(FAdd(Num(3), cpk), 1)])

(***************************************************************************)
(* Control limits: StatisticalCalculator.calculate_control_limits and      *)
(* ControlCharts.create_xbar_r_chart.                                      *)
(***************************************************************************)
\* F applied to the members of a finite set of integers, in ascending order
ListOver(S, F(_)) ==
  LET idx == Ascending(S)
  IN [j \in 1..Len(idx) |-> F(idx[j])]

RECURSIVE FMaxFrom(_, _)
FMaxFrom(s, i) ==
  IF i = Len(s) THEN s[i] ELSE PyMax(s[i], FMaxFrom(s, i + 1))
RECURSIVE FMinFrom(_, _)
FMinFrom(s, i) ==
  IF i = Len(s) THEN s[i] ELSE PyMin(s[i], FMinFrom(s, i + 1))

\* the complete blocks data[i:i+n] of `for i in range(0, len(data), n)`, n >= 1
Subgroups(x, n) ==
  [g \in 1..(Len(x) \div n) |-> SubSeq(x, (g - 1) * n + 1, g * n)]

\* np.max(subgroup) - np.min(subgroup) of every complete block
SubgroupRanges(x, n) ==
  LET sg == Subgroups(x, n)
  IN [g \in 1..Len(sg) |-> FSub(FMaxFrom(sg[g], 1), FMinFrom(sg[g], 1))]

ChartTypes == {"xbar", "mr", "r"}

calculate_control_limits(x, chart_type, n) ==
  LET constants == ConstantsFor(n)
  IN
  IF chart_type = "xbar" THEN
    IF n # 1 /\ n = 0 THEN Raised("ValueError")
    ELSE
      LET x_bar == NpMean(x)
          sigma_estimate ==
            IF n = 1 THEN FDiv(NpMean(NpAbsDiff(x)), constants.d2)
            ELSE FDiv(NpMean(SubgroupRanges(x, n)), constants.d2)
      IN Ok([UCL |-> PyRound(FAdd(x_bar, FMul(Num(3), sigma_estimate)), 2),
             CL |-> PyRound(x_bar, 2),
             LCL |-> PyRound(FSub(x_bar, FMul(Num(3), sigma_estimate)), 2),
             sigma |-> PyRound(sigma_estimate, 3)])
  ELSE IF chart_type = "mr" THEN
    LET mr_bar == NpMean(NpAbsDiff(x))
    IN Ok([UCL |-> PyRound(FMul(constants.D4, mr_bar), 2),
           CL |-> PyRound(mr_bar, 2),
           LCL |-> PyRound(FMul(constants.D3, mr_bar), 2)])
  ELSE IF chart_type = "r" THEN
    IF n = 0 THEN Raised("ValueError")
    ELSE
      LET r_bar == NpMean(SubgroupRanges(x, n))
      IN Ok([UCL |-> PyRound(FMul(constants.D4, r_bar), 2),
             CL |-> PyRound(r_bar, 2),
             LCL |-> PyRound(FMul(constants.D3, r_bar), 2)])
  ELSE Ok(NoneF)

\* BeyondLimits that also flags a value equal to a limit
BeyondLimits_Inclusive(val, ucl, lcl) == FGe(val, ucl) \/ FLe(val, lcl)

\* if val > x_ucl or val < x_lcl
BeyondLimits(val, ucl, lcl) == FGt(val, ucl) \/ FLt(val, lcl)

create_xbar_r_chart(x, n) ==
  LET constants == ConstantsFor(n)
  IN
  IF n = 1 THEN
    LET mr_values == NpAbsDiff(x)
        x_bar == NpMean(x)
        mr_bar == NpMean(mr_values)
        sigma_estimate == FDiv(mr_bar, constants.d2)
        x_ucl == FAdd(x_bar, FMul(Num(3), sigma_estimate))
        x_cl == x_bar
        x_lcl == FSub(x_bar, FMul(Num(3), sigma_estimate))
        mr_ucl == FMul(constants.D4, mr_bar)
        mr_cl == mr_bar
        mr_lcl == FMul(constants.D3, mr_bar)
        XOut(i) == [index |-> i - 1,
                    value |-> PyRound(x[i], 2),
                    type |-> IF FGt(x[i], x_ucl) THEN "Ust limit asimi"
                             ELSE "Alt limit asimi"]
        x_out_of_control ==
          ListOver({i \in 1..Len(x) : BeyondLimits(x[i], x_ucl, x_lcl)}, XOut)
        MrOut(i) == [index |-> i - 1,
                     value |-> PyRound(mr_values[i], 2),
                     type |-> "Degiskenlik artisi"]
        mr_out_of_control ==
          ListOver({i \in 1..Len(mr_values) : FGt(mr_values[i], mr_ucl)}, MrOut)
    IN Ok([x_chart |-> [values |-> x,
                        UCL |-> PyRound(x_ucl, 2),
                        CL |-> PyRound(x_cl, 2),
                        LCL |-> PyRound(x_lcl, 2),
                        out_of_control |-> x_out_of_control,
                        sigma_estimate |-> PyRound(sigma_estimate, 3)],
           mr_chart |-> [values |-> mr_values,
                         UCL |-> PyRound(mr_ucl, 2),
                         CL |-> PyRound(mr_cl, 2),
                         LCL |-> PyRound(mr_lcl, 2),
                         out_of_control |-> mr_out_of_control],
           summary |-> [process_mean |-> PyRound(x_bar, 2),
                        process_sigma |-> PyRound(sigma_estimate, 3),
                        process_capability |->
                          PyRound(FDiv(x_bar, FMul(Num(3), sigma_estimate)), 3),
                        control_status |-> IF Len(x_out_of_control) = 0
                                           THEN "Kontrol Altinda"
                                           ELSE "Kontrol Disi"]])
  ELSE IF n = 0 THEN Raised("ValueError")
  ELSE
    LET sg == Subgroups(x, n)
        x_bar_values == [g \in 1..Len(sg) |-> NpMean(sg[g])]
        r_values == SubgroupRanges(x, n)
        x_double_bar == NpMean(x_bar_values)
        r_bar == NpMean(r_values)
        x_ucl == FAdd(x_double_bar, FMul(constants.A2, r_bar))
        x_lcl == FSub(x_double_bar, FMul(constants.A2, r_bar))
        r_ucl == FMul(constants.D4, r_bar)
        r_lcl == FMul(constants.D3, r_bar)
    IN Ok([x_bar_chart |-> [values |-> x_bar_values,
                            UCL |-> PyRound(x_ucl, 2),
                            CL |-> PyRound(x_double_bar, 2),
                            LCL |-> PyRound(x_lcl, 2)],
           r_chart |-> [values |-> r_values,
                        UCL |-> PyRound(r_ucl, 2),
                        CL |-> PyRound(r_bar, 2),
                        LCL |-> PyRound(r_lcl, 2)]])

(***************************************************************************)
(* Pattern rules: ControlCharts.check_western_electric_rules.              *)
(***************************************************************************)
\* WindowStarts without the last window
WindowStarts_Short(n, w) == IF n < w THEN {} ELSE 1..(n - w)

\* the start positions (model indices) of `for i in range(len(data) - (w-1))`
WindowStarts(n, w) == IF n < w THEN {} ELSE 1..(n - w + 1)

\* sum(1 for x in subset if P(x)) over the window of length w starting at i
CountIn(i, w, P(_)) == Cardinality({j \in i..(i + w - 1) : P(j)})

RuleNames == <<"rule1", "rule2", "rule3", "rule4", "rule5", "rule6">>

\* max(violations.items(), key=lambda x: len(x[1]))[0]: the first longest list
MostCommon(violations) ==
  LET best == CHOOSE r \in 1..6 :
                /\ \A q \in 1..6 :
                     Len(violations[RuleNames[q]]) <= Len(violations[RuleNames[r]])
                /\ \A q \in 1..(r - 1) :
                     Len(violations[RuleNames[q]]) < Len(violations[RuleNames[r]])
  IN RuleNames[best]

\* RuleStatus that tolerates a single violation
RuleStatus_AllowOne(total_violations) ==
  IF total_violations <= 1 THEN "Kontrol Altinda" ELSE "Kontrol Disi"

\* 'Kontrol Altında' if total_violations == 0 else 'Kontrol Dışı'
RuleStatus(total_violations) ==
  IF total_violations = 0 THEN "Kontrol Altinda" ELSE "Kontrol Disi"

check_western_electric_rules(x) ==
  LET n == Len(x)
      mean == NpMean(x)
      sigma == NpStd(x)
      s2 == FMul(Num(2), sigma)
      s3 == FMul(Num(3), sigma)
      \* Rule 1
      R1(i) == [index |-> i - 1,
                value |-> PyRound(x[i], 2),
                sigma_distance |-> PyRound(FDiv(FSub(x[i], mean), sigma), 2)]
      rule1 == ListOver({i \in 1..n : FGt(FAbs(FSub(x[i], mean)), s3)}, R1)
      \* Rule 2
      Above2(i) == CountIn(i, 3, LAMBDA j : FGt(x[j], FAdd(mean, s2)))
      Below2(i) == CountIn(i, 3, LAMBDA j : FLt(x[j], FSub(mean, s2)))
      R2(i) == [start_index |-> i - 1, end_index |-> (i - 1) + 2,
                direction |-> IF Above2(i) >= 2 THEN "Ust" ELSE "Alt"]
      rule2 == ListOver({i \in WindowStarts(n, 3) :
                           Above2(i) >= 2 \/ Below2(i) >= 2}, R2)
      \* Rule 3
      Above3(i) == CountIn(i, 5, LAMBDA j : FGt(x[j], FAdd(mean, sigma)))
      Below3(i) == CountIn(i, 5, LAMBDA j : FLt(x[j], FSub(mean, sigma)))
      R3(i) == [start_index |-> i - 1, end_index |-> (i - 1) + 4,
                direction |-> IF Above3(i) >= 4 THEN "Ust" ELSE "Alt"]
      rule3 == ListOver({i \in WindowStarts(n, 5) :
                           Above3(i) >= 4 \/ Below3(i) >= 4}, R3)
      \* Rule 4
      R4(i) == [start_index |-> i - 1, end_index |-> (i - 1) + 7,
                side |-> IF FGt(x[i], mean) THEN "Ust" ELSE "Alt"]
      rule4 == ListOver({i \in WindowStarts(n, 8) :
                           \/ \A j \in i..(i + 7) : FGt(x[j], mean)
                           \/ \A j \in i..(i + 7) : FLt(x[j], mean)}, R4)
      \* Rule 5
      Increasing(i) == \A j \in (i + 1)..(i + 5) : FGt(x[j], x[j - 1])
      Decreasing(i) == \A j \in (i + 1)..(i + 5) : FLt(x[j], x[j - 1])
      R5(i) == [start_index |-> i - 1, end_index |-> (i - 1) + 5,
                trend |-> IF Increasing(i) THEN "Artan" ELSE "Azalan"]
      rule5 == ListOver({i \in WindowStarts(n, 6) :
                           Increasing(i) \/ Decreasing(i)}, R5)
      \* Rule 6
      Zigzag(i) == \A j \in (i + 2)..(i + 13) :
                     \/ FGt(x[j], x[j - 1]) /\ FLt(x[j - 1], x[j - 2])
                     \/ FLt(x[j], x[j - 1]) /\ FGt(x[j - 1], x[j - 2])
      R6(i) == [start_index |-> i - 1, end_index |-> (i - 1) + 13,
                pattern |-> "Zigzag"]
      rule6 == ListOver({i \in WindowStarts(n, 14) : Zigzag(i)}, R6)
      violations == [rule1 |-> rule1, rule2 |-> rule2, rule3 |-> rule3,
                     rule4 |-> rule4, rule5 |-> rule5, rule6 |-> rule6]
      total_violations == Len(rule1) + Len(rule2) + Len(rule3)
                          + Len(rule4) + Len(rule5) + Len(rule6)
  IN Ok([violations |-> violations,
         summary |-> [total_violations |-> total_violations,
                      violated_rules |->
                        ListOver({r \in 1..6 : Len(violations[RuleNames[r]]) > 0},
                                 LAMBDA r : RuleNames[r]),
                      control_status |-> RuleStatus(total_violations),
                      most_common_violation |->
                        IF total_violations > 0 THEN MostCommon(violations)
                        ELSE "None"]])

(***************************************************************************)
(* Pareto: ParetoAnalysis.analyze_defects, analyze_time_losses and         *)
(* analyze_combined_losses.  A frame is the list of the rows of self.df    *)
(* with the columns these analyses read.  Costs are carried in thousands   *)
(* of TL.  The per-category details and the recommendation texts are not   *)
(* carried.                                                                *)
(***************************************************************************)
\* the sum of one column of the frame
RECURSIVE ColumnSum(_, _, _)
ColumnSum(frame, col, i) ==
  IF i > Len(frame) THEN 0 ELSE frame[i][col] + ColumnSum(frame, col, i + 1)

\* defects_df.groupby('Hata_Nedeni').size(): the labels and their counts
DefectLabels(frame) ==
  {frame[i].Hata_Nedeni : i \in 1..Len(frame)} \ {"-"}
DefectCount(frame, label) ==
  Cardinality({i \in 1..Len(frame) : frame[i].Hata_Nedeni = label})

\* the defect types, in the order groupby sorts them
DefectTypes == <<"Boyut", "Sizdirmazlik", "Tork", "Yuzey">>
GroupLabels(frame) ==
  SelectSeq(DefectTypes, LAMBDA l : l \in DefectLabels(frame))

\* defects_df['Hata_Nedeni'].unique(): the labels in order of first appearance
RECURSIVE UniqueLabels(_, _, _)
UniqueLabels(frame, i, seen) ==
  IF i > Len(frame) THEN <<>>
  ELSE IF frame[i].Hata_Nedeni = "-" \/ frame[i].Hata_Nedeni \in seen
       THEN UniqueLabels(frame, i + 1, seen)
       ELSE <<frame[i].Hata_Nedeni>>
            \o UniqueLabels(frame, i + 1, seen \cup {frame[i].Hata_Nedeni})

\* SortOrders with the smallest magnitude first
RECURSIVE SortOrders_Ascending(_, _)
SortOrders_Ascending(magnitude, S) ==
  IF S = {} THEN {<<>>}
  ELSE UNION {{<<i>> \o t : t \in SortOrders_Ascending(magnitude, S \ {i})} :
              i \in {a \in S : \A b \in S : magnitude[a] <= magnitude[b]}}

\* sort_values(ascending=False): the orders of the item indices S in which
\* magnitudes do not increase; items of equal magnitude come in any order
RECURSIVE SortOrders(_, _)
SortOrders(magnitude, S) ==
  IF S = {} THEN {<<>>}
  ELSE UNION {{<<i>> \o t : t \in SortOrders(magnitude, S \ {i})} :
              i \in {a \in S : \A b \in S : magnitude[a] >= magnitude[b]}}

\* series.cumsum()
RECURSIVE CumSum(_, _, _)
CumSum(s, i, acc) ==
  IF i > Len(s) THEN <<>>
  ELSE <<FAdd(acc, s[i])>> \o CumSum(s, i + 1, FAdd(acc, s[i]))

\* Percent as a fraction of 1
Percent_Fraction(value, total) == FDiv(value, total)

\* (column / total) * 100
Percent(value, total) == FMul(FDiv(value, total), Num(100))

\* the band of analyze_defects, with the boundaries excluded
DefectCategory_Exclusive(x) ==
  IF FLt(x, Num(80)) THEN "Hayati Azinlik (A)"
  ELSE IF FLt(x, Num(95)) THEN "Orta Onem (B)"
  ELSE "Onemsiz Cogunluk (C)"

\* lambda x: 'Hayati Azınlık (A)' if x <= 80 else 'Orta Önem (B)' if x <= 95 ...
DefectCategory(x) ==
  IF FLe(x, Num(80)) THEN "Hayati Azinlik (A)"
  ELSE IF FLe(x, Num(95)) THEN "Orta Onem (B)"
  ELSE "Onemsiz Cogunluk (C)"

\* lambda x: 'Kritik' if x <= 50 else 'Orta' if x <= 80 else 'Düşük'
LossCriticality(x) ==
  IF FLe(x, Num(50)) THEN "Kritik"
  ELSE IF FLe(x, Num(80)) THEN "Orta"
  ELSE "Dusuk"

\* 'P1' if <= 50 else 'P2' if <= 80 else 'P3' if <= 95 else 'P4'
CostPriority(x) ==
  IF FLe(x, Num(50)) THEN "P1"
  ELSE IF FLe(x, Num(80)) THEN "P2"
  ELSE IF FLe(x, Num(95)) THEN "P3"
  ELSE "P4"

\* the percent columns of a table whose rows are already in their final order
ParetoColumns(values) ==
  LET total == FSum(values)
      yuzde == [i \in 1..Len(values) |-> Percent(values[i], total)]
  IN [total |-> total, Yuzde |-> yuzde, Kumulatif_Yuzde |-> CumSum(yuzde, 1, Fin(0))]

\* the sum of a column of doubles over the rows that satisfy a band
RECURSIVE SumWhere(_, _, _, _)
SumWhere(values, bands, band, i) ==
  IF i > Len(values) THEN Fin(0)
  ELSE FAdd(IF bands[i] = band THEN values[i] ELSE Fin(0),
            SumWhere(values, bands, band, i + 1))

\* lines 49-111, for the row order `order` of the sorted labels `labels`
DefectTable(frame, labels, order, cols) ==
  LET kategori == [i \in 1..Len(order) |-> DefectCategory(cols.Kumulatif_Yuzde[i])]
      vital == {i \in 1..Len(order) : kategori[i] = "Hayati Azinlik (A)"}
  IN Ok([data |-> [i \in 1..Len(order) |->
                     [Hata_Turu |-> labels[order[i]],
                      Adet |-> DefectCount(frame, labels[order[i]]),
                      Yuzde |-> cols.Yuzde[i],
                      Kumulatif_Yuzde |-> cols.Kumulatif_Yuzde[i],
                      Kategori |-> kategori[i]]],
         summary |->
           [toplam_hata_sayisi |-> cols.total,
            hata_cesidi_sayisi |-> Len(order),
            hata_orani |-> PyRound(Percent(cols.total, Num(Len(frame))), 1),
            hayati_azinlik |-> ListOver(vital, LAMBDA i : labels[order[i]]),
            hayati_azinlik_orani |->
              PyRound(SumWhere(cols.Yuzde, kategori, "Hayati Azinlik (A)", 1), 1),
            en_kritik_hata |-> labels[order[1]],
            en_kritik_hata_orani |-> cols.Yuzde[1]]])

\* groupby sorts the labels; `order` is the outcome of sort_values
analyze_defects(frame, labels, order) ==
  IF labels = <<>>
  THEN Ok([data |-> <<>>, summary |-> [toplam_hata_sayisi |-> Fin(0)]])
  ELSE DefectTable(frame, labels, order,
         ParetoColumns([i \in 1..Len(order) |->
                          Num(DefectCount(frame, labels[order[i]]))]))

\* lines 176-180: the three loss categories, in dictionary order
TimeLossNames == <<"Plansiz Duruslar", "KK Hazirlik Beklemesi", "KK Surec Beklemesi">>
TimeLosses(frame) ==
  <<ColumnSum(frame, "Durma_Suresi_Saat", 1),
    ColumnSum(frame, "KK_Hazirlik_Saat", 1),
    ColumnSum(frame, "KK_Surec_Saat", 1)>>

TimeLossTable(frame, order, values, cols) ==
  Ok([data |-> [i \in 1..3 |->
                  [Kayip_Turu |-> TimeLossNames[order[i]],
                   Toplam_Saat |-> values[i],
                   Yuzde |-> cols.Yuzde[i],
                   Kumulatif_Yuzde |-> cols.Kumulatif_Yuzde[i],
                   Kritiklik |-> LossCriticality(cols.Kumulatif_Yuzde[i])]],
      summary |->
        [toplam_kayip_saat |-> PyRound(cols.total, 1),
         ort_motor_basi_kayip |-> PyRound(FDiv(cols.total, Num(Len(frame))), 2)]])

analyze_time_losses(frame, order) ==
  TimeLossTable(frame, order,
    [i \in 1..3 |-> Num(TimeLosses(frame)[order[i]])],
    ParetoColumns([i \in 1..3 |-> Num(TimeLosses(frame)[order[i]])]))

\* lines 289-296: the unit cost of a defect type, in thousands of TL
UnitCost(label) ==
  IF label = "Sizdirmazlik" THEN Num(5)
  ELSE IF label = "Tork" THEN Num(3)
  ELSE IF label = "Yuzey" THEN Num(4)
  ELSE Num(2)

\* lines 301-305: the cost of an hour of each loss, in thousands of TL
HourCost == <<Fin(5000), Fin(3000), Fin(3500)>>
TimeCostNames == <<"Plansiz Duruslar", "KK Hazirlik", "KK Surec">>

\* all_costs = {**defect_costs, **time_costs}: names and costs, defects first
DefectCostName(label) ==
  IF label = "Sizdirmazlik" THEN "Hata: Sizdirmazlik"
  ELSE IF label = "Tork" THEN "Hata: Tork"
  ELSE IF label = "Yuzey" THEN "Hata: Yuzey"
  ELSE "Hata: Boyut"
AllCostNames(labels) ==
  [i \in 1..(Len(labels) + 3) |->
     IF i <= Len(labels) THEN DefectCostName(labels[i])
     ELSE TimeCostNames[i - Len(labels)]]
AllCosts(frame, labels) ==
  [i \in 1..(Len(labels) + 3) |->
     IF i <= Len(labels)
     THEN FMul(Num(DefectCount(frame, labels[i])), UnitCost(labels[i]))
     ELSE FMul(Num(TimeLosses(frame)[i - Len(labels)]), HourCost[i - Len(labels)])]

CombinedTable(frame, names, order, values, cols) ==
  LET oncelik == [i \in 1..Len(order) |-> CostPriority(cols.Kumulatif_Yuzde[i])]
  IN Ok([data |-> [i \in 1..Len(order) |->
                     [Kayip_Turu |-> names[order[i]],
                      Maliyet_TL |-> values[i],
                      Yuzde |-> cols.Yuzde[i],
                      Kumulatif_Yuzde |-> cols.Kumulatif_Yuzde[i],
                      Oncelik |-> oncelik[i]]],
         summary |->
           [toplam_maliyet |-> PyRound(cols.total, 0),
            motor_basi_maliyet |-> PyRound(FDiv(cols.total, Num(Len(frame))), 0),
            en_kritik_kayip |-> names[order[1]],
            en_kritik_maliyet |-> PyRound(values[1], 0),
            p1_kayip_sayisi |-> Cardinality({i \in 1..Len(order) : oncelik[i] = "P1"}),
            p1_maliyet_orani |-> PyRound(SumWhere(cols.Yuzde, oncelik, "P1", 1), 1)]])

\* `labels` is defects_df['Hata_Nedeni'].unique(), in order of first appearance
analyze_combined_losses(frame, labels, order) ==
  CombinedTable(frame, AllCostNames(labels), order,
    [i \in 1..Len(order) |-> AllCosts(frame, labels)[order[i]]],
    ParetoColumns([i \in 1..Len(order) |-> AllCosts(frame, labels)[order[i]]]))

(***************************************************************************)
(* Dashboard: get_control_charts_data and _interpret_control_charts of     *)
(* src/src/visualization/dashboard.py.  A frame is given by its columns.   *)
(* The chart-format adapters (self.charts) and the text report are not     *)
(* carried.                                                                *)
(***************************************************************************)
ColumnValues(frame, column) ==
  [i \in 1..Len(frame[column]) |-> Num(frame[column][i])]

\* dict.get(key, []) on the out-of-control map
GetList(map, key) == IF key \in DOMAIN map THEN map[key] ELSE <<>>

\* lines 419-426: one sentence per chart with a finding, named here by its
\* chart; lines 428-429: the sentence "normal" when no chart has a finding
Interpretations(out_of_control) ==
  LET found == (IF Len(GetList(out_of_control, "xbar")) > 0 THEN <<"xbar">> ELSE <<>>)
               \o (IF Len(GetList(out_of_control, "ewma")) > 0 THEN <<"ewma">> ELSE <<>>)
               \o (IF Len(GetList(out_of_control, "cusum")) > 0 THEN <<"cusum">> ELSE <<>>)
  IN IF found = <<>> THEN <<"normal">> ELSE found

_interpret_control_charts(out_of_control) ==
  LET interpretations == Interpretations(out_of_control)
  IN Ok([status |-> IF interpretations = <<>> THEN "Kontrol Altinda"
                    ELSE "Kontrol Disi",
         details |-> interpretations,
         recommendation |-> IF interpretations = <<>> THEN "Surec stabil"
                            ELSE "Acil Mudahale Gerekli"])

\* lines 104-116: the out-of-control map; its xbar entry is
\* xbar_r_data.get('xbar', {}).get('out_of_control', []) if 'xbar' in
\* xbar_r_data else []
OutOfControlMap(xbar_r_data, ewma_data, cusum_data) ==
  [xbar |-> IF "xbar" \in DOMAIN xbar_r_data
            THEN GetList(xbar_r_data.xbar, "out_of_control")
            ELSE <<>>,
   ewma |-> IF "out_of_control" \in DOMAIN ewma_data
            THEN ewma_data.out_of_control
            ELSE IF "ewma_values" \in DOMAIN ewma_data
            THEN Ascending({i - 1 : i \in {j \in 1..Len(ewma_data.ewma_values) :
                                            \/ FGt(ewma_data.ewma_values[j], ewma_data.UCL[j])
                                            \/ FLt(ewma_data.ewma_values[j], ewma_data.LCL[j])}})
            ELSE <<>>,
   cusum |-> GetList(cusum_data, "alarms")]

ControlChartsData(xbar_r, ewma, cusum, we_rules) ==
  IF xbar_r.status = "raised" THEN xbar_r
  ELSE IF ewma.status = "raised" THEN ewma
  ELSE IF cusum.status = "raised" THEN cusum
  ELSE IF we_rules.status = "raised" THEN we_rules
  ELSE Ok([xbar_r |-> xbar_r.value,
           ewma |-> ewma.value,
           cusum |-> cusum.value,
           out_of_control |-> OutOfControlMap(xbar_r.value, ewma.value, cusum.value),
           western_electric |-> we_rules.value,
           interpretation |->
             _interpret_control_charts(
               OutOfControlMap(xbar_r.value, ewma.value, cusum.value)).value])

\* the charts are made with the default arguments of ControlCharts
get_control_charts_data(frame) ==
  ControlChartsData(
    create_xbar_r_chart(ColumnValues(frame, "Toplam_Uretim_Suresi"), 1),
    create_ewma_chart(ColumnValues(frame, "Verimlilik"), Fin(2000), Num(3)),
    create_cusum_chart(ColumnValues(frame, "Aktif_Calisma_Saat"), Fin(5000), Num(5)),
    check_western_electric_rules(ColumnValues(frame, "Aktif_Calisma_Saat")))

(***************************************************************************)
(* DataLoader (utils/data_loader.py).  The file at data_path is missing,   *)
(* unreadable, or a sheet of rows.  A date cell is a text in some layout:  *)
(* its layout and the day, month and year it spells.  A frame is None or a *)
(* list of rows.                                                           *)
(***************************************************************************)
NoFrame == [loaded |-> FALSE, rows |-> <<>>]

\* pd.read_excel(self.data_path)
read_excel(file) ==
  IF file.kind = "missing" THEN Raised("FileNotFoundError")
  ELSE IF file.kind = "corrupt" THEN Raised("ValueError")
  ELSE Ok(file.rows)

\* pd.to_datetime(cell, format=...): the text must be in the given layout
to_datetime(cell, format) ==
  IF cell.format = format
  THEN Ok([year |-> cell.year, month |-> cell.month, day |-> cell.day])
  ELSE Raised("ValueError")

\* Timestamp.day_name(): Zeller's congruence, 0 is Saturday; January and
\* February count as months 13 and 14 of the year before
Weekday(date) ==
  LET m == IF date.month < 3 THEN date.month + 12 ELSE date.month
      y == IF date.month < 3 THEN date.year - 1 ELSE date.year
  IN (date.day + ((13 * (m + 1)) \div 5) + (y % 100) + ((y % 100) \div 4) + ((y \div 100) \div 4) + 5 * (y \div 100)) % 7

day_name(date) == <<"Saturday", "Sunday", "Monday", "Tuesday", "Wednesday", "Thursday", "Friday">>[Weekday(date) + 1]

\* Timestamp.isocalendar().week: the week of the Thursday of the date's week
iso_week(date) ==
  LET IsLeap(y) == (y % 4 = 0 /\ y % 100 # 0) \/ y % 400 = 0
      DaysBefore == <<0, 31, 59, 90, 120, 151, 181, 212, 243, 273, 304, 334>>[date.month] + (IF date.month > 2 /\ IsLeap(date.year) THEN 1 ELSE 0)
      YearStart(y) == (y + (y \div 4) - (y \div 100) + (y \div 400)) % 7
      WeeksIn(y) == IF YearStart(y) = 4 \/ YearStart(y - 1) = 3 THEN 53 ELSE 52
      RawWeek == (DaysBefore + date.day - (((Weekday(date) + 5) % 7) + 1) + 10) \div 7
  IN IF RawWeek < 1 THEN WeeksIn(date.year - 1)
     ELSE IF RawWeek > WeeksIn(date.year) THEN 1
     ELSE RawWeek

\* df['Motor_ID'].str.extract(r'(\d+)').astype(int): a text without digits
\* gives NaN, which astype(int) refuses
MotorNo(motor_id) == IF motor_id.digits = None THEN Raised("ValueError") ELSE Ok(motor_id.digits)

\* df['Vardiya'].map(vardiya_map): an unknown shift gives NaN
vardiya_map(vardiya) ==
  IF vardiya = "08:00-16:00" THEN Num(1)
  ELSE IF vardiya = "16:00-24:00" THEN Num(2)
  ELSE IF vardiya = "24:00-08:00" THEN Num(3)
  ELSE NaN

\* df.groupby('Tarih').cumcount() + 1
Gunluk_Sira(rows, i) == Cardinality({j \in 1..(i - 1) : rows[j].Tarih = rows[i].Tarih}) + 1

\* df['Toplam_Uretim_Suresi'].diff().abs()
Moving_Range(rows, i) == IF i = 1 THEN NaN ELSE FAbs(FSub(Num(rows[i].Toplam_Uretim_Suresi), Num(rows[i - 1].Toplam_Uretim_Suresi)))

Hatali(row) == IF row.Hata_Nedeni # "-" THEN 1 ELSE 0

\* the derived columns of one row (steps 1 to 10 of _preprocess_data)
ProcessedRow(rows, i) ==
  [Tarih |-> to_datetime(rows[i].Tarih, "%d.%m.%Y").value,
   Motor_ID |-> rows[i].Motor_ID,
   Aktif_Calisma_Saat |-> rows[i].Aktif_Calisma_Saat,
   Toplam_Uretim_Suresi |-> rows[i].Toplam_Uretim_Suresi,
   Durma_Suresi_Saat |-> rows[i].Durma_Suresi_Saat,
   KK_Hazirlik_Saat |-> rows[i].KK_Hazirlik_Saat,
   KK_Surec_Saat |-> rows[i].KK_Surec_Saat,
   Hata_Nedeni |-> rows[i].Hata_Nedeni,
   Vardiya |-> rows[i].Vardiya,
   Motor_No |-> MotorNo(rows[i].Motor_ID).value,
   Verimlilik |-> FMul(FDiv(Num(rows[i].Aktif_Calisma_Saat), Num(rows[i].Toplam_Uretim_Suresi)), Num(100)),
   Toplam_Kayip |-> rows[i].Durma_Suresi_Saat + rows[i].KK_Hazirlik_Saat + rows[i].KK_Surec_Saat,
   Hatali |-> Hatali(rows[i]),
   Vardiya_No |-> vardiya_map(rows[i].Vardiya),
   Hafta_Gunu |-> day_name(to_datetime(rows[i].Tarih, "%d.%m.%Y").value),
   Gun |-> rows[i].Tarih.day,
   Hafta |-> iso_week(to_datetime(rows[i].Tarih, "%d.%m.%Y").value),
   Gunluk_Sira |-> Gunluk_Sira(rows, i),
   Moving_Range |-> Moving_Range(rows, i),
   Kullanilabilirlik |-> FMul(FDiv(FSub(Num(rows[i].Toplam_Uretim_Suresi), Num(rows[i].Durma_Suresi_Saat)), Num(rows[i].Toplam_Uretim_Suresi)), Num(100)),
   Kalite_Puani |-> (1 - Hatali(rows[i])) * 100]

\* _preprocess_data: the first conversion that fails raises, and then
\* self.processed_df is not assigned
_preprocess_data(rows) ==
  IF \E i \in 1..Len(rows) : to_datetime(rows[i].Tarih, "%d.%m.%Y").status = "raised" THEN Raised("ValueError")
  ELSE IF \E i \in 1..Len(rows) : MotorNo(rows[i].Motor_ID).status = "raised" THEN Raised("ValueError")
  ELSE Ok([i \in 1..Len(rows) |-> ProcessedRow(rows, i)])

\* load_data: self.df is assigned as soon as the file is read; every
\* exception is caught and None is returned
load_data(file, self_df, processed) ==
  LET read == read_excel(file)
      pre == _preprocess_data(read.value)
  IN IF read.status = "raised" THEN [df |-> self_df, processed_df |-> processed, value |-> NoFrame]
     ELSE IF pre.status = "raised" THEN [df |-> [loaded |-> TRUE, rows |-> read.value], processed_df |-> processed, value |-> NoFrame]
     ELSE [df |-> [loaded |-> TRUE, rows |-> read.value], processed_df |-> [loaded |-> TRUE, rows |-> pre.value], value |-> [loaded |-> TRUE, rows |-> pre.value]]

(***************************************************************************)
(* The program as a state machine.  Every analysis object holds the loaded *)
(* column `data` of `variable` (self.df[variable].values); a call computes *)
(* its result from it and returns, and the object is ready for the next    *)
(* call.  The ParetoAnalysis object loads a frame of its own, `df`, with   *)
(* the columns its analyses read.  Inputs are drawn from small sets.       *)
(***************************************************************************)
VARIABLES variable, data, df, chart_df, pc, call, result, loader_df, processed_df, loaded, step, log

vars == <<variable, data, df, chart_df, pc, call, result, loader_df, processed_df, loaded, step, log>>

\* the column as an array of doubles
X == [i \in 1..Len(data) |-> Num(data[i])]

\* the values a column takes: around the target where SPEC_LIMITS has one
Offset(v) ==
  IF v \in DOMAIN SPEC_LIMITS THEN (SPEC_LIMITS[v].Target.v \div SCALE) - 1 ELSE 0

SeriesOf(v) ==
  UNION {[1..n -> Offset(v)..(Offset(v) + MaxVal)] : n \in 0..MaxLen}

\* the two series of the specification's concrete scenarios
Scenarios == {<<10, 12, 11, 13, 50>>, <<7, 7, 7, 7, 7>>}

\* longer series, on which the window rules and the trend test can act
PatternSeries ==
  {<<0, 1, 0, 1, 0, 1, 0, 1, 0, 1, 0, 1, 0, 1, 0,
     1, 2, 3, 4, 5, 6, 30, 30, 30, 30, 0>>,
   <<0, 1, 2, 3, 4, 5>>,
   <<0, 50, 51, 52, 53, 54, 55, 56, 57, 58>>,
   <<9, 50, 51, 52, 53, 54, 55, 56, 57, 58, 59>>,
   <<58, 57, 56, 55, 54, 53, 52, 51, 50, 49, 48>>}

KValues == {Fin(0), Fin(5000)}
HValues == {Fin(5000), Num(5)}
LambdaValues == {Fin(2000), Num(1)}
LValues == {Num(1), Num(3)}
UslArgs == {NoneF, Num(3)}
LslArgs == {NoneF, Num(0), Num(3), Num(4)}
TargetArgs == {NoneF, Num(1)}
SubgroupSizes == {0, 1, 2, 3, 6}
SpecLimitArgs(v) ==
  {NoneF,
   [USL |-> Num(3), LSL |-> Num(0), Target |-> NoneF],
   [USL |-> Num(3), LSL |-> Num(3), Target |-> NoneF],
   [USL |-> Num(0), LSL |-> Num(3), Target |-> Num(1)]}
  \cup (IF v \in DOMAIN SPEC_LIMITS THEN {SPEC_LIMITS[v]} ELSE {})

\* a row of the frame: the defect cause ('-' for none) and the three losses
Row(cause, durma, hazirlik, surec) ==
  [Hata_Nedeni |-> cause, Durma_Suresi_Saat |-> durma,
   KK_Hazirlik_Saat |-> hazirlik, KK_Surec_Saat |-> surec]

RowKinds ==
  {Row("-", 0, 0, 0), Row("-", 2, 1, 1), Row("Sizdirmazlik", 0, 1, 2),
   Row("Tork", 1, 0, 0), Row("Boyut", 0, 0, 1)}

Frames == UNION {[1..n -> RowKinds] : n \in 0..MaxRows}

\* the category counts {A: 50, B: 30, C: 15, D: 5} of the specification's
\* concrete scenario
ParetoScenario ==
  [i \in 1..100 |->
     Row(IF i <= 50 THEN "Sizdirmazlik" ELSE IF i <= 80 THEN "Tork"
         ELSE IF i <= 95 THEN "Yuzey" ELSE "Boyut", 0, 0, 0)]

NoCall == [op |-> "", args |-> <<>>]

\* the frame of the ControlCharts object a Dashboard holds, by column: every
\* column is a calm or an eventful series, all of one length
ChartColumns == {"Toplam_Uretim_Suresi", "Verimlilik", "Aktif_Calisma_Saat"}
ChartFrames ==
  LET ChartSeries ==
  {<<7, 7, 7, 7, 7>>,
   <<10, 12, 11, 13, 50>>,
   <<7, 7, 7, 7, 7, 7, 7, 7, 7, 7, 7, 7, 7, 7, 7, 7, 7, 7, 7, 7, 7, 7, 7, 7, 7, 7>>,
   <<0, 1, 0, 1, 0, 1, 0, 1, 0, 1, 0, 1, 0, 1, 0,
     1, 2, 3, 4, 5, 6, 30, 30, 30, 30, 0>>}
  IN {f \in [ChartColumns -> ChartSeries] :
     \A c, d \in ChartColumns : Len(f[c]) = Len(f[d])}
NoChartFrame == [c \in ChartColumns |-> <<>>]

\* the out-of-control maps handed to _interpret_control_charts: every list
\* empty or with one finding, and the map without any key
OutOfControlMaps ==
  [{"xbar", "ewma", "cusum"} -> {<<>>, <<[index |-> 0]>>}] \cup {<<>>}

Init ==
  /\ variable \in Variables
  /\ \/ /\ data \in SeriesOf(variable)
                    \cup (IF variable = "Verimlilik"
                          THEN Scenarios \cup PatternSeries ELSE {})
        /\ df = <<>>
        /\ chart_df = NoChartFrame
     \/ /\ variable = "Verimlilik"
        /\ data = <<>>
        /\ df \in Frames \cup {ParetoScenario}
        /\ chart_df = NoChartFrame
     \/ /\ variable = "Verimlilik"
        /\ data = <<>>
        /\ df = <<>>
        /\ chart_df \in ChartFrames
  /\ pc = "ready"
  /\ call = NoCall
  /\ result = NoResult
  /\ loader_df = NoFrame
  /\ processed_df = NoFrame
  /\ loaded = NoResult
  /\ step = "start"
  /\ log = <<>>

Invoke(op, args, res) ==
  /\ pc = "ready"
  /\ pc' = "returned"
  /\ call' = [op |-> op, args |-> args]
  /\ result' = res
  /\ UNCHANGED <<variable, data, df, chart_df>>
  /\ UNCHANGED <<loader_df, processed_df, loaded, step, log>>

CalculateCusum ==
  \E k \in KValues, h \in HValues :
    Invoke("calculate_cusum", <<k, h>>, calculate_cusum(X, k, h))

CreateCusumChart ==
  \E k \in KValues, h \in HValues :
    Invoke("create_cusum_chart", <<k, h>>, create_cusum_chart(X, k, h))

CalculateEwma ==
  \E lambda_val \in LambdaValues, L \in LValues :
    Invoke("calculate_ewma", <<lambda_val, L>>, calculate_ewma(X, lambda_val, L))

CreateEwmaChart ==
  \E lambda_val \in LambdaValues, L \in LValues :
    Invoke("create_ewma_chart", <<lambda_val, L>>,
           create_ewma_chart(X, lambda_val, L))

CalculateCapabilityIndices ==
  \E usl \in UslArgs, lsl \in LslArgs, target \in TargetArgs :
    Invoke("calculate_capability_indices", <<usl, lsl, target>>,
           calculate_capability_indices(variable, X, usl, lsl, target))

CalculateProcessCapability ==
  \E spec_limits \in SpecLimitArgs(variable) :
    Invoke("calculate_process_capability", <<spec_limits>>,
           calculate_process_capability(X, spec_limits))

CalculateControlLimits ==
  \E chart_type \in ChartTypes, n \in SubgroupSizes :
    Invoke("calculate_control_limits", <<chart_type, n>>,
           calculate_control_limits(X, chart_type, n))

CreateXbarRChart ==
  \E n \in SubgroupSizes :
    Invoke("create_xbar_r_chart", <<n>>, create_xbar_r_chart(X, n))

CheckWesternElectricRules ==
  Invoke("check_western_electric_rules", <<>>, check_western_electric_rules(X))

AnalyzeDefects ==
  \E order \in SortOrders([i \in 1..Len(GroupLabels(df)) |->
                             DefectCount(df, GroupLabels(df)[i])],
                          1..Len(GroupLabels(df))) :
    Invoke("analyze_defects", <<>>, analyze_defects(df, GroupLabels(df), order))

AnalyzeTimeLosses ==
  \E order \in SortOrders(TimeLosses(df), 1..3) :
    Invoke("analyze_time_losses", <<>>, analyze_time_losses(df, order))

AnalyzeCombinedLosses ==
  \E order \in SortOrders([i \in 1..(Len(UniqueLabels(df, 1, {})) + 3) |->
                             AllCosts(df, UniqueLabels(df, 1, {}))[i].v],
                          1..(Len(UniqueLabels(df, 1, {})) + 3)) :
    Invoke("analyze_combined_losses", <<>>,
           analyze_combined_losses(df, UniqueLabels(df, 1, {}), order))

GetControlChartsData ==
  Invoke("get_control_charts_data", <<>>, get_control_charts_data(chart_df))

InterpretControlCharts ==
  \E out_of_control \in OutOfControlMaps :
    Invoke("_interpret_control_charts", <<out_of_control>>,
           _interpret_control_charts(out_of_control))

\* the caller takes the result; the object is ready for the next call
Return ==
  /\ pc = "returned"
  /\ pc' = "ready"
  /\ call' = NoCall
  /\ result' = NoResult
  /\ UNCHANGED <<variable, data, df, chart_df>>
  /\ UNCHANGED <<loader_df, processed_df, loaded, step, log>>

Next ==
  \/ CalculateCusum
  \/ CreateCusumChart
  \/ CalculateEwma
  \/ CreateEwmaChart
  \/ CalculateCapabilityIndices
  \/ CalculateProcessCapability
  \/ CalculateControlLimits
  \/ CreateXbarRChart
  \/ CheckWesternElectricRules
  \/ AnalyzeDefects
  \/ AnalyzeTimeLosses
  \/ AnalyzeCombinedLosses
  \/ GetControlChartsData
  \/ InterpretControlCharts
  \/ Return

Spec == Init /\ [][Next]_vars

(***************************************************************************)
(* The application: one DataLoader object, whose load_data is called any   *)
(* number of times while the file at data_path changes between calls, and  *)
(* one run of run_demo (main.py), whose Dashboard builds a DataLoader of   *)
(* its own.  `log` lists what run_demo and export_dashboard_json printed   *)
(* or wrote, `step` is the position of run_demo.                           *)
(***************************************************************************)
RawRows ==
  LET SheetRow(layout, day, motor, toplam, hata, vardiya) == [Tarih |-> [format |-> layout, day |-> day, month |-> 11, year |-> 2025], Motor_ID |-> [prefix |-> "BMC-", digits |-> motor], Aktif_Calisma_Saat |-> 50, Toplam_Uretim_Suresi |-> toplam, Durma_Suresi_Saat |-> 2, KK_Hazirlik_Saat |-> 1, KK_Surec_Saat |-> 2, Hata_Nedeni |-> hata, Vardiya |-> vardiya]
  IN {SheetRow("%d.%m.%Y", 1, 1001, 60, "-", "08:00-16:00"), SheetRow("%d.%m.%Y", 2, 1002, 0, "Tork Hatasi", "09:00-17:00"), SheetRow("%Y-%m-%d", 1, 1003, 60, "-", "16:00-24:00"), SheetRow("%d.%m.%Y", 1, None, 60, "-", "24:00-08:00")}

MaxSheet == 2

Files == {[kind |-> "missing", rows |-> <<>>], [kind |-> "corrupt", rows |-> <<>>]} \cup {[kind |-> "sheet", rows |-> rows] : rows \in UNION {[1..n -> RawRows] : n \in 1..MaxSheet}}

\* no analysis call is in progress; DataLoader.__init__; run_demo not started
AppInit ==
  /\ variable = "Verimlilik"
  /\ data = <<>>
  /\ df = <<>>
  /\ chart_df = NoChartFrame
  /\ pc = "ready"
  /\ call = NoCall
  /\ result = NoResult
  /\ loader_df = NoFrame
  /\ processed_df = NoFrame
  /\ loaded = NoResult
  /\ step = "start"
  /\ log = <<>>

\* loader.load_data() on the file as it is now
LoadData ==
  \E file \in Files :
    /\ loader_df' = load_data(file, loader_df, processed_df).df
    /\ processed_df' = load_data(file, loader_df, processed_df).processed_df
    /\ loaded' = Ok(load_data(file, loader_df, processed_df).value)
    /\ UNCHANGED <<step, log>>
    /\ UNCHANGED <<variable, data, df, chart_df, pc, call, result>>

\* run_demo, lines 7-13
DemoStart ==
  /\ step = "start"
  /\ step' = "dashboard"
  /\ log' = log \o <<"[1/3]">>
  /\ UNCHANGED <<loader_df, processed_df, loaded>>
  /\ UNCHANGED <<variable, data, df, chart_df, pc, call, result>>

\* export_dashboard_json: the analyses raise without data (and may raise
\* with data); a failure of the write is caught and only printed
ExportLog(has_data, analyses_ok, write_ok) ==
  IF ~has_data \/ ~analyses_ok THEN <<"analysis error">>
  ELSE IF write_ok THEN <<"json written", "dashboard done">>
  ELSE <<"json error", "dashboard done">>

\* run_demo, lines 14-21: Dashboard() loads the file into a new DataLoader,
\* then export_dashboard_json runs
DemoDashboard ==
  \E file \in Files, analyses_ok \in BOOLEAN, write_ok \in BOOLEAN :
    /\ step = "dashboard"
    /\ loader_df' = load_data(file, NoFrame, NoFrame).df
    /\ processed_df' = load_data(file, NoFrame, NoFrame).processed_df
    /\ loaded' = Ok(load_data(file, NoFrame, NoFrame).value)
    /\ log' = log \o ExportLog(load_data(file, NoFrame, NoFrame).value.loaded, analyses_ok, write_ok)
    /\ step' = IF load_data(file, NoFrame, NoFrame).value.loaded /\ analyses_ok THEN "reports" ELSE "exit"
    /\ UNCHANGED <<variable, data, df, chart_df, pc, call, result>>

\* run_demo, lines 23-31: a failure of the reports is only printed
DemoReports ==
  \E reports_ok \in BOOLEAN :
    /\ step = "reports"
    /\ step' = "server"
    /\ log' = log \o <<"[2/3]", IF reports_ok THEN "reports done" ELSE "reports error">>
    /\ UNCHANGED <<loader_df, processed_df, loaded>>
    /\ UNCHANGED <<variable, data, df, chart_df, pc, call, result>>

\* run_demo, lines 33-42
DemoServer ==
  /\ step = "server"
  /\ step' = "exit"
  /\ log' = log \o <<"[3/3]", "server started">>
  /\ UNCHANGED <<loader_df, processed_df, loaded>>
  /\ UNCHANGED <<variable, data, df, chart_df, pc, call, result>>

AppNext ==
  \/ LoadData
  \/ DemoStart
  \/ DemoDashboard
  \/ DemoReports
  \/ DemoServer

AppSpec == AppInit /\ [][AppNext]_vars

\* run_demo is one sequential program: a step that can run does run
AppFairSpec == AppSpec /\ WF_vars(DemoStart) /\ WF_vars(DemoDashboard) /\ WF_vars(DemoReports) /\ WF_vars(DemoServer)

(***************************************************************************)
(* Properties.                                                             *)
(***************************************************************************)
Returned(op) == pc = "returned" /\ call.op = op /\ result.status = "ok"
CusumReturned == Returned("calculate_cusum") \/ Returned("create_cusum_chart")
EwmaReturned == Returned("calculate_ewma") \/ Returned("create_ewma_chart")

\* C1: every element of the C_plus and C_minus sequences returned by
\* calculate_cusum and by create_cusum_chart is a number >= 0, for every
\* series, reference value k and decision interval h.
ThmC1_CusumNonNegative ==
  CusumReturned =>
    /\ Len(result.value.C_plus) = Len(data)
    /\ Len(result.value.C_minus) = Len(data)
    /\ \A i \in 1..Len(data) :
         /\ FGe(result.value.C_plus[i], Fin(0))
         /\ FGe(result.value.C_minus[i], Fin(0))

\* a returned C_plus that rose above zero and was then floored back to zero
WitnessC1_FloorActs ==
  /\ CusumReturned
  /\ \E i \in 2..Len(data) :
       /\ FGt(result.value.C_plus[i - 1], Fin(0))
       /\ FEq(result.value.C_plus[i], Fin(0))
       /\ FGt(result.value.C_minus[i], Fin(0))

\* C2 as stated: with lambda = 1 the EWMA sequence equals the raw series at
\* every index, index 0 included.
OrigC2_EwmaIsSeriesEverywhere ==
  (EwmaReturned /\ call.args[1] = Num(1)) =>
    \A i \in 1..Len(data) : FEq(result.value.ewma_values[i], X[i])

\* C2 amended: with lambda = 1 the EWMA sequence equals the raw series at
\* every index from 1 on, and its element 0 is the mean of the series.
ThmC2_EwmaIsSeriesAfterFirst ==
  (EwmaReturned /\ call.args[1] = Num(1)) =>
    /\ Len(result.value.ewma_values) = Len(data)
    /\ FEq(result.value.ewma_values[1], NpMean(X))
    /\ \A i \in 2..Len(data) : FEq(result.value.ewma_values[i], X[i])

\* a lambda = 1 chart of a series whose first value is not its mean
WitnessC2_LambdaOne ==
  /\ EwmaReturned
  /\ call.args[1] = Num(1)
  /\ Len(data) >= 3
  /\ ~FEq(X[1], NpMean(X))
  /\ \E i \in 2..Len(data) : ~FEq(X[i], X[i - 1])

\* the capability computations that were asked for indices
CapabilityCalled ==
  /\ pc = "returned"
  /\ \/ call.op = "calculate_capability_indices"
     \/ call.op = "calculate_process_capability" /\ call.args[1] # NoneF
CapabilityReturned == CapabilityCalled /\ result.status = "ok"

\* the limits and target the called capability computation works with
UsedSpec ==
  IF call.op = "calculate_capability_indices"
  THEN ResolveSpec(variable, X, call.args[1], call.args[2], call.args[3])
  ELSE call.args[1]

\* the sigma the called capability computation divides by
UsedSigma ==
  IF call.op = "calculate_capability_indices"
  THEN FDiv(NpMean(NpAbsDiff(X)), Fin(11280))
  ELSE NpStd(X)

ReturnedCp ==
  IF call.op = "calculate_capability_indices"
  THEN result.value.indices.Cp ELSE result.value.Cp
ReturnedCpk ==
  IF call.op = "calculate_capability_indices"
  THEN result.value.indices.Cpk ELSE result.value.Cpk

ConstantSeries == Len(data) >= 2 /\ \A i \in 1..Len(data) : data[i] = data[1]

\* C3: computing capability indices on a constant series (every moving
\* range zero) ends in an error (DegenerateVariance) and yields no Cp/Cpk.
\* Any raised error is taken as that failure.
ClaimC3_ConstantSeriesRaises ==
  (CapabilityCalled /\ ConstantSeries) => result.status = "raised"

\* C4: for every series with positive sigma and every pair of specification
\* limits, Cpk <= Cp, for the computed values and for the returned
\* 3-decimal values.
ThmC4_CpkAtMostCp ==
  (CapabilityReturned /\ FGt(UsedSigma, Fin(0))) =>
    /\ FLe(result.value.raw.Cpk, result.value.raw.Cp)
    /\ FLe(ReturnedCpk, ReturnedCp)

\* an off-centre process: Cpk strictly below Cp, before and after rounding
WitnessC4_OffCentre ==
  /\ CapabilityReturned
  /\ FGt(UsedSigma, Fin(0))
  /\ FLt(result.value.raw.Cpk, result.value.raw.Cp)
  /\ FLt(ReturnedCpk, ReturnedCp)
  /\ FGt(ReturnedCpk, Fin(0))

\* C5 as stated: whenever the series mean equals the target used by
\* calculate_capability_indices, the returned Cpk equals the returned Cp.
OrigC5_CentredOnTarget ==
  (Returned("calculate_capability_indices") /\ FEq(NpMean(X), UsedSpec.Target)) =>
    ReturnedCpk = ReturnedCp

\* C5 amended: whenever the series mean equals the midpoint (USL + LSL) / 2
\* of the limits used by calculate_capability_indices, the returned Cpk and
\* the returned Cp are the same value.
ThmC5_CentredOnMidpoint ==
  (/\ Returned("calculate_capability_indices")
   /\ FEq(NpMean(X), FDiv(FAdd(UsedSpec.USL, UsedSpec.LSL), Num(2)))) =>
    ReturnedCpk = ReturnedCp

\* a varying series centred on the midpoint of limits given by the caller
WitnessC5_CentredOnMidpoint ==
  /\ Returned("calculate_capability_indices")
  /\ ~IsNone(call.args[1])
  /\ ~IsNone(call.args[2])
  /\ FEq(NpMean(X), FDiv(FAdd(UsedSpec.USL, UsedSpec.LSL), Num(2)))
  /\ FGt(UsedSigma, Fin(0))
  /\ IsFin(ReturnedCp)
  /\ FGt(ReturnedCp, Fin(0))

\* C6: a capability computation whose limits satisfy USL <= LSL is rejected
\* with an error (InvalidSpecLimits) and produces no capability result.
\* Any raised error is taken as that rejection.
ClaimC6_InvalidLimitsRejected ==
  (CapabilityCalled /\ FLe(UsedSpec.USL, UsedSpec.LSL)) =>
    result.status = "raised"

\* the control-limit computations that estimate sigma from the moving range
MovingRangeLimitsCalled ==
  /\ pc = "returned"
  /\ \/ /\ call.op = "calculate_control_limits"
        /\ \/ call.args[1] = "mr"
           \/ call.args[1] = "xbar" /\ call.args[2] = 1
     \/ call.op = "create_xbar_r_chart" /\ call.args[1] = 1

\* C7: control-limit computation on a series with fewer than 2 observations
\* fails with an error (InsufficientData) and returns no limit set.
\* Any raised error is taken as that failure.
ClaimC7_ShortSeriesRaises ==
  (MovingRangeLimitsCalled /\ Len(data) < 2) => result.status = "raised"

\* the subgroup size of a control-limit call
SubgroupSizeArg ==
  IF call.op = "calculate_control_limits" THEN call.args[2] ELSE call.args[1]

\* C8: a subgroup size with no entry in the control-constants table makes
\* control-limit computation fail with an error (unsupported subgroup size);
\* no limit set is computed from another size's constants.  Any raised
\* error is taken as that failure.
ClaimC8_UnknownSubgroupRaises ==
  (/\ pc = "returned"
   /\ call.op \in {"calculate_control_limits", "create_xbar_r_chart"}
   /\ SubgroupSizeArg \notin DOMAIN CONTROL_CONSTANTS) =>
    result.status = "raised"

\* C9: for the series [10, 12, 11, 13, 50] the six-rule pattern engine
\* reports index 4 (the value 50) as a Rule-1 violation.
ClaimC9_ScenarioRule1 ==
  (/\ pc = "returned"
   /\ call.op = "check_western_electric_rules"
   /\ data = <<10, 12, 11, 13, 50>>) =>
    /\ result.status = "ok"
    /\ \E j \in 1..Len(result.value.violations.rule1) :
         result.value.violations.rule1[j].index = 4

AlarmAt(i, type) ==
  \E j \in 1..Len(result.value.alarms) :
    /\ result.value.alarms[j].index = i - 1
    /\ result.value.alarms[j].type = type

\* C10: for every index i of the CUSUM chart an up-shift alarm is reported
\* exactly when C+[i] > h, and a down-shift alarm exactly when C-[i] > h.
ClaimC10_AlarmsIndependent ==
  Returned("create_cusum_chart") =>
    \A i \in 1..Len(data) :
      /\ AlarmAt(i, "Yukari kayma") <=> FGt(result.value.C_plus[i], call.args[2])
      /\ AlarmAt(i, "Asagi kayma") <=> FGt(result.value.C_minus[i], call.args[2])

\* the cumulative sum that triggered the first alarm of a returned CUSUM chart
FirstAlarmSum ==
  IF result.value.alarms[1].type = "Yukari kayma"
  THEN result.value.C_plus
  ELSE result.value.C_minus

\* C11: whenever the CUSUM chart has at least one alarm, the reported shift
\* onset is j + 1, where j is the largest index not after the first alarm at
\* which the cumulative sum that triggered the first alarm is exactly zero.
ClaimC11_ShiftOnset ==
  (Returned("create_cusum_chart") /\ Len(result.value.alarms) > 0) =>
    \E j \in 0..result.value.alarms[1].index :
      /\ FEq(FirstAlarmSum[j + 1], Fin(0))
      /\ \A m \in (j + 1)..result.value.alarms[1].index :
           ~FEq(FirstAlarmSum[m + 1], Fin(0))
      /\ result.value.summary.shift_start_index = j + 1

DefectsReturned == Returned("analyze_defects") /\ Len(result.value.data) > 0

\* C12: analyze_defects bands a category VitalFew exactly when its cumulative
\* percent is <= 80, Significant exactly when it is > 80 and <= 95, Trivial
\* otherwise; for the counts {A: 50, B: 30, C: 15, D: 5} the bands are
\* VitalFew, VitalFew, Significant, Trivial.
ThmC12_DefectBands ==
  DefectsReturned =>
    /\ \A i \in 1..Len(result.value.data) :
         LET row == result.value.data[i]
         IN /\ row.Kategori = "Hayati Azinlik (A)"
                 <=> FLe(row.Kumulatif_Yuzde, Num(80))
            /\ row.Kategori = "Orta Onem (B)"
                 <=> (FGt(row.Kumulatif_Yuzde, Num(80))
                      /\ FLe(row.Kumulatif_Yuzde, Num(95)))
            /\ row.Kategori = "Onemsiz Cogunluk (C)"
                 <=> ~FLe(row.Kumulatif_Yuzde, Num(95))
    /\ df = ParetoScenario =>
         /\ Len(result.value.data) = 4
         /\ result.value.data[1].Hata_Turu = "Sizdirmazlik"
         /\ result.value.data[1].Kategori = "Hayati Azinlik (A)"
         /\ result.value.data[2].Hata_Turu = "Tork"
         /\ result.value.data[2].Kategori = "Hayati Azinlik (A)"
         /\ result.value.data[3].Hata_Turu = "Yuzey"
         /\ result.value.data[3].Kategori = "Orta Onem (B)"
         /\ result.value.data[4].Hata_Turu = "Boyut"
         /\ result.value.data[4].Kategori = "Onemsiz Cogunluk (C)"

\* the scenario's table, with a cumulative percent on each boundary
WitnessC12_Boundaries ==
  /\ DefectsReturned
  /\ df = ParetoScenario
  /\ FEq(result.value.data[2].Kumulatif_Yuzde, Num(80))
  /\ FEq(result.value.data[3].Kumulatif_Yuzde, Num(95))

\* a returned Pareto table: its rows and the magnitude column of a row
ParetoReturned ==
  \/ DefectsReturned
  \/ Returned("analyze_time_losses")
  \/ Returned("analyze_combined_losses")
ParetoMagnitude(i) ==
  IF call.op = "analyze_defects" THEN Num(result.value.data[i].Adet)
  ELSE IF call.op = "analyze_time_losses" THEN result.value.data[i].Toplam_Saat
  ELSE result.value.data[i].Maliyet_TL
ParetoPositive ==
  /\ ParetoReturned
  /\ \E i \in 1..Len(result.value.data) : FGt(ParetoMagnitude(i), Fin(0))
ParetoOrdered ==
  \A i \in 1..(Len(result.value.data) - 1) :
    /\ FGe(ParetoMagnitude(i), ParetoMagnitude(i + 1))
    /\ FLe(result.value.data[i].Kumulatif_Yuzde,
           result.value.data[i + 1].Kumulatif_Yuzde)
ParetoLast == result.value.data[Len(result.value.data)].Kumulatif_Yuzde

\* C13 as stated: in every Pareto table with a positive total the rows are in
\* non-increasing order of magnitude, the cumulative percent is non-decreasing
\* and its last value equals 100.
OrigC13_LastIsHundred ==
  ParetoPositive => (ParetoOrdered /\ FEq(ParetoLast, Num(100)))

\* C13 amended: in every Pareto table with a positive total the rows are in
\* non-increasing order of magnitude, the cumulative percent is non-decreasing
\* and its last value is 100 up to the rounding of the percent computation
\* (one rounded quotient, times 100, per row).
ThmC13_LastNearHundred ==
  ParetoPositive =>
    /\ ParetoOrdered
    /\ FLe(FAbs(FSub(ParetoLast, Num(100))), Fin(50 * Len(result.value.data)))

\* a table of three rows of distinct magnitude whose last cumulative percent
\* is not 100
WitnessC13_RoundedTotal ==
  /\ ParetoPositive
  /\ Len(result.value.data) >= 3
  /\ FGt(ParetoMagnitude(1), ParetoMagnitude(2))
  /\ FGt(ParetoMagnitude(2), ParetoMagnitude(3))
  /\ ~FEq(ParetoLast, Num(100))

RulesReturned == Returned("check_western_electric_rules")

\* the window length of each rule
RuleWindow == <<1, 3, 5, 8, 6, 14>>

\* how many points of the window of length w at i lie beyond mean + m sigma
\* (side = 1) or beyond mean - m sigma (side = -1), for the engine's mean
\* and sigma
BeyondCount(i, w, m, side) ==
  Cardinality({j \in i..(i + w - 1) :
     IF side = 1
     THEN FGt(X[j], FAdd(NpMean(X), FMul(Num(m), NpStd(X))))
     ELSE FLt(X[j], FSub(NpMean(X), FMul(Num(m), NpStd(X))))})

\* the tabulated condition of rule r on the window that starts at i
RuleCondition(r, i) ==
  CASE r = 2 -> BeyondCount(i, 3, 2, 1) >= 2 \/ BeyondCount(i, 3, 2, -1) >= 2
    [] r = 3 -> BeyondCount(i, 5, 1, 1) >= 4 \/ BeyondCount(i, 5, 1, -1) >= 4
    [] r = 4 -> \/ \A j \in i..(i + 7) : FGt(X[j], NpMean(X))
                \/ \A j \in i..(i + 7) : FLt(X[j], NpMean(X))
    [] r = 5 -> \/ \A j \in i..(i + 4) : data[j] < data[j + 1]
                \/ \A j \in i..(i + 4) : data[j] > data[j + 1]
    [] r = 6 -> \A j \in (i + 1)..(i + 12) :
                  \/ data[j] > data[j - 1] /\ data[j] > data[j + 1]
                  \/ data[j] < data[j - 1] /\ data[j] < data[j + 1]

\* C14: for each of rules 2 to 6, with window length w = 3, 5, 8, 6, 14, a
\* violation with start index i and end index i + w - 1 is reported for exactly
\* those i in 0..N-w whose window satisfies the rule's condition, once each,
\* overlapping windows included, and none when N < w.
ThmC14_EveryWindow ==
  RulesReturned =>
    \A r \in 2..6 :
      LET v == result.value.violations[RuleNames[r]]
          w == RuleWindow[r]
          starts == {i \in 0..(Len(data) - w) : RuleCondition(r, i + 1)}
      IN /\ Len(v) = Cardinality(starts)
         /\ \A i \in starts : \E j \in 1..Len(v) : v[j].start_index = i
         /\ \A j \in 1..Len(v) :
              /\ v[j].start_index \in starts
              /\ v[j].end_index = v[j].start_index + w - 1

\* every one of rules 2 to 6 reports two overlapping windows
WitnessC14_Overlapping ==
  /\ RulesReturned
  /\ \A r \in 2..6 :
       \E j \in 1..(Len(result.value.violations[RuleNames[r]]) - 1) :
         result.value.violations[RuleNames[r]][j + 1].start_index
           = result.value.violations[RuleNames[r]][j].start_index + 1

\* the rules, by name, that report at least one violation
RulesWithViolations ==
  {r \in {"rule1", "rule2", "rule3", "rule4", "rule5", "rule6"} :
     Len(result.value.violations[r]) > 0}

\* C15: the pattern-rule engine reports status in control exactly when all six
\* rules report zero violations, and out of control otherwise; violated_rules
\* is exactly the set of rules with at least one violation.
ThmC15_StatusIffNoViolation ==
  RulesReturned =>
    /\ result.value.summary.control_status = "Kontrol Altinda"
         <=> RulesWithViolations = {}
    /\ result.value.summary.control_status = "Kontrol Disi"
         <=> RulesWithViolations # {}
    /\ {result.value.summary.violated_rules[j] :
          j \in 1..Len(result.value.summary.violated_rules)} = RulesWithViolations
    /\ Len(result.value.summary.violated_rules) = Cardinality(RulesWithViolations)

\* exactly one violation in all: one rule violated once, the others clean
WitnessC15_SingleViolation ==
  /\ RulesReturned
  /\ result.value.summary.total_violations = 1
  /\ Cardinality(RulesWithViolations) = 1
  /\ result.value.summary.control_status = "Kontrol Disi"

\* the X-chart limits a returned result carries: of calculate_control_limits
\* for chart type xbar, of the individuals chart and of the X-bar chart
XLimitsReturned ==
  \/ Returned("calculate_control_limits") /\ call.args[1] = "xbar"
  \/ Returned("create_xbar_r_chart")

XLimits ==
  IF call.op = "calculate_control_limits" THEN result.value
  ELSE IF call.args[1] = 1 THEN result.value.x_chart
  ELSE result.value.x_bar_chart

XLimitsFinite == IsFin(XLimits.UCL) /\ IsFin(XLimits.CL) /\ IsFin(XLimits.LCL)

RecentEwma ==
  SubSeq(result.value.ewma_values, Len(result.value.ewma_values) - 9,
         Len(result.value.ewma_values))

StrictlyIncreasing(s) == \A i \in 2..Len(s) : FGt(s[i], s[i - 1])
StrictlyDecreasing(s) == \A i \in 2..Len(s) : FLt(s[i], s[i - 1])

\* C17: for every series of at least 10 points the EWMA chart reports trend
\* rising exactly when its last 10 EWMA values are strictly increasing,
\* falling exactly when they are strictly decreasing, and stable otherwise.
ClaimC17_TrendOfLastTen ==
  (Returned("create_ewma_chart") /\ Len(data) >= 10) =>
    /\ result.value.summary.trend = "Artan" <=> StrictlyIncreasing(RecentEwma)
    /\ result.value.summary.trend = "Azalan" <=> StrictlyDecreasing(RecentEwma)
    /\ result.value.summary.trend \in {"Artan", "Azalan", "Stabil"}

\* the individuals chart of a returned create_xbar_r_chart call
IndividualsReturned == Returned("create_xbar_r_chart") /\ call.args[1] = 1

\* the limits the individuals chart works with: mean -+ 3 * (MR-bar / 1.128)
IndividualsWidth == FMul(Num(3), FDiv(NpMean(NpAbsDiff(X)), Fin(11280)))
IndividualsUCL == FAdd(NpMean(X), IndividualsWidth)
IndividualsLCL == FSub(NpMean(X), IndividualsWidth)

XOutList == result.value.x_chart.out_of_control

\* C18: in the individuals chart, index i appears in the out-of-control list
\* exactly when x[i] > upperLimit or x[i] < lowerLimit (strictly: a value
\* equal to a limit is not flagged); the entries are in increasing index
\* order, at most one per index, and the type is upper-limit exactly when
\* x[i] > upperLimit.
ThmC18_OutOfControlList ==
  IndividualsReturned =>
    /\ \A i \in 1..Len(X) :
         (\E j \in 1..Len(XOutList) : XOutList[j].index = i - 1)
           <=> (FGt(X[i], IndividualsUCL) \/ FLt(X[i], IndividualsLCL))
    /\ \A j \in 1..Len(XOutList) : XOutList[j].index \in 0..(Len(X) - 1)
    /\ \A j \in 1..(Len(XOutList) - 1) : XOutList[j].index < XOutList[j + 1].index
    /\ \A j \in 1..Len(XOutList) :
         XOutList[j].type = "Ust limit asimi"
           <=> FGt(X[XOutList[j].index + 1], IndividualsUCL)

\* a chart whose limits coincide with a value of the series (a constant
\* series: zero moving range), and nothing is flagged
WitnessC18_OnLimitNotFlagged ==
  /\ IndividualsReturned
  /\ Len(X) >= 2
  /\ \E i \in 1..Len(X) : FEq(X[i], IndividualsUCL) /\ FEq(X[i], IndividualsLCL)
  /\ XOutList = <<>>

\* the width UCL[i] - LCL[i] of the returned EWMA band at model index i
BandWidth(i) == FSub(result.value.UCL[i], result.value.LCL[i])

TailVariants(n) ==
  {SubSeq(data, 1, Len(data) - (Len(data) % n)) \o tail :
     tail \in [1..(Len(data) % n) -> Offset(variable)..(Offset(variable) + MaxVal)]}

Doubles(x2) == [i \in 1..Len(x2) |-> Num(x2[i])]

\* the center line and the control limits of a limit set
LimitsOf(chart) == <<chart.CL, chart.UCL, chart.LCL>>

\* calculate_control_limits returned for a subgrouped X-bar or R chart
SubgroupLimitsReturned ==
  /\ Returned("calculate_control_limits")
  /\ call.args[1] \in {"xbar", "r"}
  /\ call.args[2] > 1

\* create_xbar_r_chart returned for subgroups
SubgroupChartReturned == Returned("create_xbar_r_chart") /\ call.args[1] > 1

\* the part of C20 about ControlCharts.create_xbar_r_chart
TrailingIgnoredByChart ==
  SubgroupChartReturned =>
    \A x2 \in TailVariants(call.args[1]) :
      /\ LimitsOf(create_xbar_r_chart(Doubles(x2), call.args[1]).value.x_bar_chart)
           = LimitsOf(result.value.x_bar_chart)
      /\ LimitsOf(create_xbar_r_chart(Doubles(x2), call.args[1]).value.r_chart)
           = LimitsOf(result.value.r_chart)

\* the part of C20 about StatisticalCalculations.calculate_control_limits
TrailingIgnoredByLimits ==
  SubgroupLimitsReturned =>
    \A x2 \in TailVariants(call.args[2]) :
      LimitsOf(calculate_control_limits(Doubles(x2), call.args[1], call.args[2]).value)
        = LimitsOf(result.value)

\* C20: with subgroup size n > 1 the observations of a trailing partial block
\* (the last N mod n values) have no effect on any returned center line or
\* control limit: changing them leaves CL, UCL and LCL of the X-bar chart and
\* of the R chart unchanged.
ClaimC20_TrailingBlockIgnored == TrailingIgnoredByChart /\ TrailingIgnoredByLimits

\* the four tabulated constants of a subgroup size
ConstantNames == {"A2", "D3", "D4", "d2"}

\* C21: in the control-constants table the entry for subgroup size 1 equals
\* the entry for subgroup size 2 in all four constants A2, D3, D4 and d2, and
\* D3 is 0 for every tabulated size.
ClaimC21_SizeOneIsSizeTwo ==
  (pc = "returned" /\ call.op \in {"calculate_control_limits", "create_xbar_r_chart"}) =>
  /\ \A c \in ConstantNames : CONTROL_CONSTANTS[1][c] = CONTROL_CONSTANTS[2][c]
  /\ \A n \in DOMAIN CONTROL_CONSTANTS : CONTROL_CONSTANTS[n].D3 = Fin(0)

\* 3 * Cpk + 1.5 for the Cpk the returned capability computation worked out
ExpectedSigmaLevel == FAdd(FMul(Num(3), result.value.raw.Cpk), Fin(15000))

\* C22: every capability routine reports a sigma level equal to 3*Cpk + 1.5
\* for the Cpk it computed (to the rounding of the reported value, at most
\* half a unit of the first decimal), for every series and limits.
ClaimC22_SigmaLevel ==
  (CapabilityReturned /\ IsFin(result.value.raw.Cpk)) =>
    FLe(FAbs(FSub(result.value.sigma_level, ExpectedSigmaLevel)), Fin(500))

\* the part of C22 about ProcessCapability.calculate_capability_indices
SigmaLevelOfIndices ==
  (Returned("calculate_capability_indices") /\ IsFin(result.value.raw.Cpk)) =>
    result.value.sigma_level = PyRound(ExpectedSigmaLevel, 2)

\* the band label of a row of the time-loss or the combined-cost table
LossBand(row) == IF call.op = "analyze_time_losses" THEN row.Kritiklik ELSE row.Oncelik

LossesReturned == Returned("analyze_time_losses") \/ Returned("analyze_combined_losses")

\* C23: the magnitude-based Pareto aggregations (time losses in hours,
\* combined losses in cost) band their categories with the thresholds of the
\* defect counts: top band exactly when cumulative percent <= 80, middle band
\* when it is > 80 and <= 95, lowest band otherwise.
ClaimC23_SameThresholds ==
  LossesReturned =>
    \A i \in 1..Len(result.value.data) :
      /\ LossBand(result.value.data[i]) \in {"Kritik", "P1"}
           <=> FLe(result.value.data[i].Kumulatif_Yuzde, Num(80))
      /\ LossBand(result.value.data[i]) \in {"Orta", "P2"}
           <=> /\ FGt(result.value.data[i].Kumulatif_Yuzde, Num(80))
               /\ FLe(result.value.data[i].Kumulatif_Yuzde, Num(95))

\* the category labels of the three Pareto tables, in ascending label order
LabelOrder ==
  <<"Boyut", "Hata: Boyut", "Hata: Sizdirmazlik", "Hata: Tork", "Hata: Yuzey",
    "KK Hazirlik", "KK Hazirlik Beklemesi", "KK Surec", "KK Surec Beklemesi",
    "Plansiz Duruslar", "Sizdirmazlik", "Tork", "Yuzey">>
LabelRank(label) == CHOOSE r \in 1..Len(LabelOrder) : LabelOrder[r] = label

ParetoLabel(i) ==
  IF call.op = "analyze_defects" THEN result.value.data[i].Hata_Turu
  ELSE result.value.data[i].Kayip_Turu

\* C24: Pareto output order is a function of the set of (category, magnitude)
\* pairs only: rows are in non-increasing order of magnitude and categories
\* of equal magnitude are in ascending order of category label.
ClaimC24_TiesByLabel ==
  ParetoReturned =>
    \A i \in 1..(Len(result.value.data) - 1) :
      \/ FGt(ParetoMagnitude(i), ParetoMagnitude(i + 1))
      \/ /\ ParetoMagnitude(i) = ParetoMagnitude(i + 1)
         /\ LabelRank(ParetoLabel(i)) < LabelRank(ParetoLabel(i + 1))

\* the share, in percent of all defects, of the first row of the defect table
LargestShare ==
  FMul(FDiv(Num(result.value.data[1].Adet),
            Num(Cardinality({i \in 1..Len(df) : df[i].Hata_Nedeni # "-"}))),
       Num(100))

\* C25 as stated: whenever at least one defect exists, the category with the
\* largest count is classified as vital-few by analyze_defects, so the
\* vital-few list of the summary is never empty.
OrigC25_VitalFewNonEmpty ==
  DefectsReturned =>
    /\ result.value.data[1].Kategori = "Hayati Azinlik (A)"
    /\ result.value.summary.hayati_azinlik # <<>>

\* C25: whenever at least one defect exists, the first row of the defect
\* table is a category with the largest count, and it is classified as
\* vital-few exactly when its share of the defects is at most 80 percent;
\* the vital-few list of the summary is non-empty exactly in that case, and
\* then it starts with that category.
ThmC25_VitalFewIffShare ==
  DefectsReturned =>
    /\ \A i \in 1..Len(result.value.data) :
         result.value.data[i].Adet <= result.value.data[1].Adet
    /\ result.value.data[1].Kategori = "Hayati Azinlik (A)"
         <=> FLe(LargestShare, Num(80))
    /\ result.value.summary.hayati_azinlik # <<>> <=> FLe(LargestShare, Num(80))
    /\ result.value.summary.hayati_azinlik # <<>> =>
         result.value.summary.hayati_azinlik[1] = result.value.data[1].Hata_Turu

\* defects of a single type: its share is 100 percent and no category is
\* vital-few
WitnessC25_DominantCategory ==
  /\ DefectsReturned
  /\ Len(result.value.data) = 1
  /\ result.value.data[1].Adet >= 2
  /\ result.value.data[1].Kategori = "Onemsiz Cogunluk (C)"
  /\ result.value.summary.hayati_azinlik = <<>>

\* the code indices at which the upper cumulative sum of a returned CUSUM
\* chart exceeds h, and the first of them
UpAlarmIndices ==
  {i \in 0..(Len(result.value.C_plus) - 1) :
     FGt(result.value.C_plus[i + 1], call.args[2])}
FirstUpAlarm == CHOOSE a \in UpAlarmIndices : \A b \in UpAlarmIndices : a <= b

ShiftStart == result.value.summary.shift_start_index

\* C26: whenever create_cusum_chart reports a non-null shift_start_index s,
\* with h >= 0 and a the first index where C+ exceeds h: 1 <= s <= a,
\* C+[s-1] == 0, and C+[j] > 0 for every j in s..a; and s is non-null
\* whenever some C+ value exceeds h.
ThmC26_ShiftStart ==
  (Returned("create_cusum_chart") /\ FGe(call.args[2], Fin(0))) =>
    /\ UpAlarmIndices # {} => ShiftStart # None
    /\ ShiftStart # None =>
         /\ UpAlarmIndices # {}
         /\ 1 <= ShiftStart
         /\ ShiftStart <= FirstUpAlarm
         /\ FEq(result.value.C_plus[(ShiftStart - 1) + 1], Fin(0))
         /\ \A j \in ShiftStart..FirstUpAlarm :
              FGt(result.value.C_plus[j + 1], Fin(0))

\* the upper sum leaves zero after the second point and exceeds h only later
WitnessC26_OnsetBeforeAlarm ==
  /\ Returned("create_cusum_chart")
  /\ ShiftStart # None
  /\ ShiftStart >= 2
  /\ ShiftStart < FirstUpAlarm

\* the out-of-control map a returned call interpreted, and its interpretation
InterpretationReturned ==
  Returned("_interpret_control_charts") \/ Returned("get_control_charts_data")
InterpretedMap ==
  IF call.op = "_interpret_control_charts" THEN call.args[1]
  ELSE result.value.out_of_control
InterpretedStatus ==
  IF call.op = "_interpret_control_charts" THEN result.value.status
  ELSE result.value.interpretation.status
NoFindings ==
  /\ Len(GetList(InterpretedMap, "xbar")) = 0
  /\ Len(GetList(InterpretedMap, "ewma")) = 0
  /\ Len(GetList(InterpretedMap, "cusum")) = 0

\* C27: the dashboard's control-chart interpretation reports status in
\* control ('Kontrol Altinda') exactly when the xbar, ewma and cusum
\* out-of-control lists are all empty, and out of control ('Kontrol Disi')
\* exactly when at least one of them is non-empty.
ClaimC27_StatusIffNoFindings ==
  InterpretationReturned =>
    /\ InterpretedStatus = "Kontrol Altinda" <=> NoFindings
    /\ InterpretedStatus = "Kontrol Disi" <=> ~NoFindings

\* C28: the xbar entry of the out_of_control map returned by
\* Dashboard.get_control_charts_data equals the X-chart out-of-control list
\* that create_xbar_r_chart computed for the same variable in the same call.
ClaimC28_XbarEntryIsChartList ==
  Returned("get_control_charts_data") =>
    result.value.out_of_control.xbar = result.value.xbar_r.x_chart.out_of_control


\* C29: after any sequence of load_data calls, processed_df is unset or the
\* preprocessed form of the current raw df, and a load that fails (returns
\* None) leaves df and processed_df as they were before the call.
LoadReturnedNone == loaded.status = "ok" /\ ~loaded.value.loaded

ProcessedIsCurrent == processed_df.loaded => (loader_df.loaded /\ _preprocess_data(loader_df.rows).status = "ok" /\ processed_df.rows = _preprocess_data(loader_df.rows).value)

FailedLoadKeepsState == (LoadData /\ LoadReturnedNone') => UNCHANGED <<loader_df, processed_df>>

ClaimC29_LoadIsAtomic == []ProcessedIsCurrent /\ [][FailedLoadKeepsState]_vars

\* the two halves of C29, each on its own
C29_ProcessedIsCurrent == ProcessedIsCurrent

C29_FailedLoadKeepsState == [][FailedLoadKeepsState]_vars

\* what does hold: a load that fails leaves processed_df as it was, and a
\* load that finds no readable file leaves df as it was too
C29_FailedLoadKeepsProcessed == [][(LoadData /\ LoadReturnedNone') => processed_df' = processed_df]_vars

\* a failed load has happened after a successful one
C29_FailedAfterSuccess == LoadReturnedNone /\ processed_df.loaded


\* C30: in run_demo the steps run in the order dashboard export, report
\* generation, HTTP server; the dashboard step is announced as completed and
\* the later steps are started only if dashboard_data.json was written; a
\* failure of the report generation does not keep the server from starting.
Logged(e) == \E i \in 1..Len(log) : log[i] = e

Before(a, b) == \A j \in 1..Len(log) : log[j] = b => \E i \in 1..(j - 1) : log[i] = a

StepsInOrder == Before("[1/3]", "[2/3]") /\ Before("[2/3]", "[3/3]") /\ Before("[3/3]", "server started")

OnlyIfWritten == (Logged("dashboard done") \/ Logged("[2/3]") \/ Logged("[3/3]")) => Logged("json written")

ServerAfterFailedReports == Logged("reports error") ~> Logged("server started")

ClaimC30_DemoSteps == [](StepsInOrder /\ OnlyIfWritten) /\ ServerAfterFailedReports

\* the parts of C30, each on its own
C30_StepsInOrder == StepsInOrder

C30_OnlyIfWritten == OnlyIfWritten

C30_ServerAfterFailedReports == ServerAfterFailedReports

\* the server runs although the write of dashboard_data.json failed
C30_ServedWithoutJson == Logged("server started") /\ Logged("json error")

=============================================================================
